---- MODULE Spec2Model ----
(***************************************************************************)
(* Model of the Semarang flood dashboard script (src/app.py).              *)
(*                                                                         *)
(* Two computational parts are modelled:                                   *)
(*   - the nearest-station matcher: find_nearest_station and the script    *)
(*     lines that apply it to every flood row and build the hover text;    *)
(*   - the raster overlay renderer: the body of geotiff_to_temp_png.       *)
(*                                                                         *)
(* Abstractions:                                                           *)
(*   - coordinates are points of a small integer grid and geodesic() is    *)
(*     the squared Euclidean distance on that grid: a deterministic,       *)
(*     symmetric, non-negative function of the two points, which is all    *)
(*     the scan of find_nearest_station uses of it;                        *)
(*   - a raster band is a sequence of integer cell values; the cast        *)
(*     astype(np.uint8) is modelled by what numpy does with them.          *)
(***************************************************************************)
EXTENDS Integers, Sequences, FiniteSets, TLC

\* ------------------------------------------------------------------ bounds
MaxStations == 2
MaxCoord == 1
MaxBands == 5
MaxPix == 3
MaxCells == 5
MaxCalls == 4
MaxCsvRows == 2
MaxBadFiles == 1
MaxPlotStations == 2
MaxPlotFloods == 2
MaxFeatures == 2
MaxReruns == 1

VARIABLES
    \* --- matcher
    station_map_df,   \* sequence of station rows [lat, lon, hover_text]
    flood_map_df,     \* sequence of flood rows (columns are added as the script runs)
    pc,               \* position of the script in lines 134-153
    row,              \* the flood row DataFrame.apply is at (1-based)
    lat, lon,         \* arguments of the running call of find_nearest_station
    idx,              \* position of the for loop of find_nearest_station
    min_dist, nearest_name, nearest_coords,   \* its locals
    geodesic_calls,   \* number of times line 139 ran in the current call
    applied,          \* the values returned so far, one per flood row
    \* --- renderer
    src,              \* the raster behind tif_path: [count, nodata, dtype, bands]
    rpc,              \* "ready" before the call, "returned" after it
    branch,           \* branch of the band-count dispatch that ran
    arr,              \* the np.uint8 array handed to Image.fromarray, <<>> before
    invalid_divide,   \* numpy computed 0/0 (NaN) in the rescale of line 494
    img,              \* RGBA pixels of the image, <<>> before the call
    tmp_files,        \* names of the temporary PNG files on disk
    ret_png,          \* value returned by geotiff_to_temp_png, <<>> before the call
    \* --- st.cache_data around geotiff_to_temp_png
    cache,            \* <<function, tif_path>> -> the value stored for that call
    png,              \* name of a temporary file -> the image saved in it
    calls,            \* number of calls of the cached functions so far
    fn, tif_path,     \* the function and the argument of the last call
    hit,              \* the last call was answered from the cache
    load_cache,       \* st.cache_data of load_data: << >> or <<the value stored>>
    \* --- load_data and the station table
    flood_csv, rain_csv,   \* the rows of the two CSV files, as text cells
    flood_df, rain_df,     \* the two DataFrames load_data returns
    \* --- one run of the script
    absent,           \* the input files that do not exist
    broken,           \* the raster files rasterio cannot open or read
    ppc,              \* the section the run is at, or how the run ended
    errors,           \* the paths named by the st.error messages shown
    rendered,         \* the sections and map layers put on the page
    exception,        \* the file whose exception no handler caught, or "none"
    \* --- the session: what outlives a run of the script
    widgets,          \* the current value of every widget
    runs,             \* number of reruns a widget change has triggered
    basins_file,      \* the features of the sub-basin GeoJSON file
    \* --- script variables of the run
    temp_files,       \* the list temp_files of the current map section
    selected_date,    \* the LULC date of line 459, "none" before it
    flood_to_plot,    \* the flood rows chosen for the point map
    station_markers,  \* the station markers placed on the point map
    flood_markers,    \* the flood markers placed on the point map
    basins_geojson,   \* the features loaded from the sub-basin file
    styles,           \* what the style function returned, one per feature
    metrics           \* the sidebar metrics, label -> value

matchVars == <<station_map_df, flood_map_df, pc, row, lat, lon, idx, min_dist,
               nearest_name, nearest_coords, geodesic_calls, applied>>
renderVars == <<src, rpc, branch, arr, invalid_divide, img, tmp_files, ret_png>>
cacheVars == <<cache, png, calls, fn, tif_path, hit, load_cache>>
loadVars == <<flood_csv, rain_csv, flood_df, rain_df>>
sessionVars == <<widgets, runs, basins_file>>
scriptVars == <<temp_files, selected_date, flood_to_plot, station_markers,
                flood_markers, basins_geojson, styles, metrics>>
pageVars == <<absent, broken, ppc, errors, rendered, exception,
              widgets, runs, basins_file,
              temp_files, selected_date, flood_to_plot, station_markers,
              flood_markers, basins_geojson, styles, metrics>>
vars == <<station_map_df, flood_map_df, pc, row, lat, lon, idx, min_dist,
          nearest_name, nearest_coords, geodesic_calls, applied,
          src, rpc, branch, arr, invalid_divide, img, tmp_files, ret_png,
          cache, png, calls, fn, tif_path, hit, load_cache,
          flood_csv, rain_csv, flood_df, rain_df,
          absent, broken, ppc, errors, rendered, exception,
          widgets, runs, basins_file,
          temp_files, selected_date, flood_to_plot, station_markers,
          flood_markers, basins_geojson, styles, metrics>>

\* ---------------------------------------------------------- Python values
\* None as the value of nearest_name, and None as the value of nearest_coords
\* (two representations, because names are strings and coordinates tuples).
NoneName == "None"
NoneCoords == << >>
\* the missing value pandas puts in an object column
NaN == "NaN"
\* float('inf'), line 135: a sentinel below every distance
inf == -1

\* ------------------------------------------------------- widget state
\* The value every widget has in a new session: the value= or index= of its
\* call, the first option of a selectbox. The date slider starts at min_date,
\* which the script computes from the data: << >> stands for "not moved".
\* The opacity slider counts in hundredths.
DefaultWidgets ==
    [selected_station |-> "All Stations",
     flood_date |-> << >>,
     show_all_floods |-> FALSE,
     selected_year |-> 2025,
     show_slope |-> TRUE, show_lulc |-> TRUE, show_river |-> TRUE,
     table_choice |-> "Slope",
     show_rpi |-> TRUE, show_rainfall |-> TRUE, show_q |-> TRUE,
     legend_option |-> "Rainfall",
     basin_opacity |-> 70]

\* A sub-basin file with one styled feature.
SampleBasins ==
    << [properties |-> [mean_Q |-> 7,
                        style |-> <<[fillColor |-> "red", fillOpacity |-> 50]>>]] >>

\* The script variables at the top of a run.
FreshScript ==
    /\ temp_files = << >>
    /\ selected_date = "none"
    /\ flood_to_plot = << >>
    /\ station_markers = << >>
    /\ flood_markers = << >>
    /\ basins_geojson = << >>
    /\ styles = << >>
    /\ metrics = << >>

\* ------------------------------------------------------------ input data
Lats == 0 .. MaxCoord
Lons == 0 .. 1
StationNames == {"A", "B"}
Dates == {<<2021, 2, 6>>}
Areas == {"Genuk"}

StationRows == [lat : Lats, lon : Lons, hover_text : StationNames]
FloodRows == [lat : Lats, lon : Lons, date : Dates, Name_of_area : Areas]

\* station_map_df after drop_duplicates(): no two rows are the same triple.
IsDeduplicated(df) ==
    \A i, j \in DOMAIN df : i # j => df[i] # df[j]

SeqsUpTo(S, n) == UNION {[1 .. k -> S] : k \in 0 .. n}

StationTables == {df \in SeqsUpTo(StationRows, MaxStations) : IsDeduplicated(df)}
FloodTables == [1 .. 1 -> FloodRows] \cup [1 .. 2 -> FloodRows]

\* ------------------------------------------------- find_nearest_station
\* geodesic((lat, lon), (s.lat, s.lon)).meters
geodesic(lat1, lon1, lat2, lon2) ==
    (lat1 - lat2) * (lat1 - lat2) + (lon1 - lon2) * (lon1 - lon2)

\* dist < min_dist, where min_dist may be float('inf')
less_than(dist, m) == m = inf \/ dist < m

less_than_or_equal(dist, m) == m = inf \/ dist <= m

greater_than(dist, m) == m = inf \/ dist > m

\* One iteration of the for loop, on the locals acc and the station row s.
loop_body_always(acc, qlat, qlon, s) ==
    LET dist == geodesic(qlat, qlon, s.lat, s.lon) IN
    [min_dist |-> dist, nearest_name |-> s.hover_text,
     nearest_coords |-> <<s.lat, s.lon>>]

loop_body_le(acc, qlat, qlon, s) ==
    LET dist == geodesic(qlat, qlon, s.lat, s.lon) IN
    IF less_than_or_equal(dist, acc.min_dist)
    THEN [min_dist |-> dist, nearest_name |-> s.hover_text,
          nearest_coords |-> <<s.lat, s.lon>>]
    ELSE acc

loop_body_gt(acc, qlat, qlon, s) ==
    LET dist == geodesic(qlat, qlon, s.lat, s.lon) IN
    IF greater_than(dist, acc.min_dist)
    THEN [min_dist |-> dist, nearest_name |-> s.hover_text,
          nearest_coords |-> <<s.lat, s.lon>>]
    ELSE acc

loop_body_stale_coords(acc, qlat, qlon, s) ==
    LET dist == geodesic(qlat, qlon, s.lat, s.lon) IN
    IF less_than(dist, acc.min_dist)
    THEN [min_dist |-> dist, nearest_name |-> s.hover_text,
          nearest_coords |-> IF acc.nearest_coords = NoneCoords
                             THEN <<s.lat, s.lon>> ELSE acc.nearest_coords]
    ELSE acc

loop_body(acc, qlat, qlon, s) ==
    LET dist == geodesic(qlat, qlon, s.lat, s.lon) IN
    IF less_than(dist, acc.min_dist)
    THEN [min_dist |-> dist, nearest_name |-> s.hover_text,
          nearest_coords |-> <<s.lat, s.lon>>]
    ELSE acc

\* The locals at entry, lines 135-137.
locals_at_entry_empty_name ==
    [min_dist |-> inf, nearest_name |-> "", nearest_coords |-> NoneCoords]

locals_at_entry ==
    [min_dist |-> inf, nearest_name |-> NoneName, nearest_coords |-> NoneCoords]

\* The whole scan as a function of its inputs: the locals after the loop ran
\* over the first n rows of station_df.
RECURSIVE scan(_, _, _, _)
scan(qlat, qlon, station_df, n) ==
    IF n = 0 THEN locals_at_entry
    ELSE loop_body(scan(qlat, qlon, station_df, n - 1), qlat, qlon, station_df[n])

\* The value find_nearest_station returns, line 144.
return_value(acc) == <<acc.nearest_name, acc.nearest_coords>>

find_nearest_station(qlat, qlon, station_df) ==
    return_value(scan(qlat, qlon, station_df, Len(station_df)))

\* ------------------------------------------------------------ hover text
Digit == <<"0", "1", "2", "3", "4", "5", "6", "7", "8", "9">>
TwoDigits(n) == Digit[((n \div 10) % 10) + 1] \o Digit[(n % 10) + 1]
FourDigits(n) == TwoDigits(n \div 100) \o TwoDigits(n % 100)

\* date.strftime('%Y-%m-%d')
strftime(date) ==
    FourDigits(date[1]) \o "-" \o TwoDigits(date[2]) \o "-" \o TwoDigits(date[3])

\* + on two object columns, element by element: a missing operand (None or
\* NaN) gives a missing result.
str_add(a, b) ==
    IF a = NaN \/ a = NoneName \/ b = NaN \/ b = NoneName THEN NaN ELSE a \o b

hover_text_of(r) ==
    str_add(str_add(str_add(str_add(strftime(r.date), " | "), r.Name_of_area),
                    " | Nearest Station: "), r.nearest_station)

\* ------------------------------------------------------------- rasters
\* Cell values: the no-data value 0, a value inside [0,255], and values below
\* and above the range of np.uint8.
CellValues == {-1, 0, 7, 256}
\* src.nodata: << >> is None (no no-data value set), <<v>> is the value v
NodataValues == {<< >>, <<0>>, <<7>>}
\* int16 stands for the integer dtypes wider than 8 bits, float32 for the
\* floating dtypes
Dtypes == {"int16", "float32"}
\* src.bounds
RasterBounds == [bottom |-> -8, left |-> 110, top |-> -7, right |-> 111]

\* band count and number of cells per band
Shapes ==
    {sh \in (1 .. MaxBands) \X (1 .. MaxPix) : sh[1] * sh[2] <= MaxCells}

Rasters ==
    UNION {[count : {sh[1]}, nodata : NodataValues, dtype : Dtypes,
            bounds : {RasterBounds},
            bands : [1 .. sh[1] -> [1 .. sh[2] -> CellValues]]] : sh \in Shapes}

\* The single-band example of the specification: values [[0,10],[20,30]]
\* with no-data value 0.
ExampleRasters ==
    [count : {1}, nodata : {<<0>>}, dtype : Dtypes, bounds : {RasterBounds},
     bands : {<< <<0, 10, 20, 30>> >>}]

\* number of cells of a band
Cells(raster) == DOMAIN raster.bands[1]

clamp(v) == IF v < 0 THEN 0 ELSE IF v > 255 THEN 255 ELSE v

\* arr.astype(np.uint8) on one value: the set of values the cast can give.
\* A value of [0,255] is kept. An integer outside it is reduced modulo 256.
\* A float outside it is undefined behaviour of the C cast: builds reduce it
\* modulo 256 (x86) or saturate (ARM).
astype_uint8(v, dtype) ==
    IF v \in 0 .. 255 THEN {v}
    ELSE IF dtype = "int16" THEN {v % 256}
    ELSE {v % 256, clamp(v)}

\* the cast of NaN (0/0) to np.uint8, undefined behaviour as well
astype_uint8_NaN == {0, 255}

\* All the images whose pixel p is one of choices[p].
ImagesOf(choices) ==
    {im \in [DOMAIN choices -> UNION {choices[p] : p \in DOMAIN choices}] :
        \A p \in DOMAIN choices : im[p] \in choices[p]}

\* src.read([1,2,3,4]), transpose, astype(np.uint8), Image.fromarray(mode="RGBA")
rgba_images(raster) ==
    ImagesOf([p \in Cells(raster) |->
        {<<r, g, b, a>> :
            r \in astype_uint8(raster.bands[1][p], raster.dtype),
            g \in astype_uint8(raster.bands[2][p], raster.dtype),
            b \in astype_uint8(raster.bands[3][p], raster.dtype),
            a \in astype_uint8(raster.bands[4][p], raster.dtype)}])

\* src.read([1,2,3]), transpose, astype(np.uint8), Image.fromarray, convert("RGBA")
rgb_images(raster) ==
    ImagesOf([p \in Cells(raster) |->
        {<<r, g, b, 255>> :
            r \in astype_uint8(raster.bands[1][p], raster.dtype),
            g \in astype_uint8(raster.bands[2][p], raster.dtype),
            b \in astype_uint8(raster.bands[3][p], raster.dtype)}])

\* np.where(arr == src.nodata, 0, arr) on band 1
replace_nodata(raster) ==
    [p \in Cells(raster) |->
        IF raster.nodata # << >> /\ raster.bands[1][p] = raster.nodata[1]
        THEN 0 ELSE raster.bands[1][p]]

arr_min(a) == CHOOSE m \in {a[p] : p \in DOMAIN a} :
                  \A p \in DOMAIN a : m <= a[p]
arr_max(a) == CHOOSE m \in {a[p] : p \in DOMAIN a} :
                  \A p \in DOMAIN a : m >= a[p]

\* ((arr - arr.min()) / (arr.max() - arr.min()) * 255).astype(np.uint8) on one
\* value: the quotient lies in [0,1], so the cast keeps the integer part; with
\* max = min the quotient is 0/0 = NaN.
rescale(v, mn, mx) ==
    IF mx = mn THEN astype_uint8_NaN
    ELSE {((v - mn) * 255) \div (mx - mn)}

gray_pixel_opaque(g) == <<g, g, g, 255>>

\* Image.fromarray(arr).convert("RGBA"), then zero values made transparent
gray_pixel(g) == IF g = 0 THEN <<0, 0, 0, 0>> ELSE <<g, g, g, 255>>

\* the rescaled np.uint8 arrays line 494 can give
gray_arrays(raster) ==
    LET a == replace_nodata(raster)
        mn == arr_min(a)
        mx == arr_max(a)
    IN ImagesOf([p \in Cells(raster) |-> rescale(a[p], mn, mx)])

\* lines 495-499 on the rescaled array a
gray_rgba(a) == [p \in DOMAIN a |-> gray_pixel(a[p])]

gray_images(raster) == {gray_rgba(a) : a \in gray_arrays(raster)}

\* arr.max() - arr.min() is 0: the division of line 494 is 0/0
rescale_divides_by_zero(raster) ==
    arr_max(replace_nodata(raster)) = arr_min(replace_nodata(raster))

\* --------------------------------------------------------------- actions
RenderIdle ==
    [count |-> 1, nodata |-> <<0>>, dtype |-> "int16", bounds |-> RasterBounds,
     bands |-> << <<0>> >>]

InitMatch ==
    /\ station_map_df \in StationTables
    /\ flood_map_df \in FloodTables
    /\ pc = "apply"
    /\ row = 1
    /\ lat = 0 /\ lon = 0 /\ idx = 1
    /\ min_dist = inf /\ nearest_name = NoneName /\ nearest_coords = NoneCoords
    /\ geodesic_calls = 0
    /\ applied = << >>
    /\ src = RenderIdle
    /\ rpc = "returned"
    /\ branch = "none"
    /\ arr = << >>
    /\ invalid_divide = FALSE
    /\ img = << >>
    /\ tmp_files = {}
    /\ ret_png = << >>
    /\ cache = << >> /\ png = << >> /\ calls = 0
    /\ fn = "none" /\ tif_path = "none" /\ hit = FALSE
    /\ flood_csv = << >> /\ rain_csv = << >>
    /\ flood_df = << >> /\ rain_df = << >>
    /\ absent = {} /\ broken = {} /\ ppc = "done"
    /\ errors = {} /\ rendered = {} /\ exception = "none"
    /\ widgets = DefaultWidgets /\ runs = 0 /\ basins_file = SampleBasins
    /\ load_cache = << >>
    /\ FreshScript

\* DataFrame.apply calls the lambda on the next flood row; the function
\* initialises its locals.
Call ==
    /\ pc = "apply"
    /\ row <= Len(flood_map_df)
    /\ lat' = flood_map_df[row].lat
    /\ lon' = flood_map_df[row].lon
    /\ min_dist' = locals_at_entry.min_dist
    /\ nearest_name' = locals_at_entry.nearest_name
    /\ nearest_coords' = locals_at_entry.nearest_coords
    /\ idx' = 1
    /\ geodesic_calls' = 0
    /\ pc' = "scan"
    /\ UNCHANGED <<station_map_df, flood_map_df, row, applied>>
    /\ UNCHANGED renderVars
    /\ UNCHANGED cacheVars
    /\ UNCHANGED loadVars
    /\ UNCHANGED pageVars

Iterate_consuming ==
    /\ pc = "scan"
    /\ idx <= Len(station_map_df)
    /\ LET acc == loop_body([min_dist |-> min_dist, nearest_name |-> nearest_name,
                             nearest_coords |-> nearest_coords],
                            lat, lon, station_map_df[idx])
       IN /\ min_dist' = acc.min_dist
          /\ nearest_name' = acc.nearest_name
          /\ nearest_coords' = acc.nearest_coords
    /\ station_map_df' = Tail(station_map_df)
    /\ geodesic_calls' = geodesic_calls + 1
    /\ UNCHANGED <<idx, flood_map_df, pc, row, lat, lon, applied>>
    /\ UNCHANGED renderVars
    /\ UNCHANGED cacheVars
    /\ UNCHANGED loadVars
    /\ UNCHANGED pageVars

\* One iteration of "for _, s in station_df.iterrows()".
Iterate ==
    /\ pc = "scan"
    /\ idx <= Len(station_map_df)
    /\ LET acc == loop_body([min_dist |-> min_dist, nearest_name |-> nearest_name,
                             nearest_coords |-> nearest_coords],
                            lat, lon, station_map_df[idx])
       IN /\ min_dist' = acc.min_dist
          /\ nearest_name' = acc.nearest_name
          /\ nearest_coords' = acc.nearest_coords
    /\ idx' = idx + 1
    /\ geodesic_calls' = geodesic_calls + 1
    /\ UNCHANGED <<station_map_df, flood_map_df, pc, row, lat, lon, applied>>
    /\ UNCHANGED renderVars
    /\ UNCHANGED cacheVars
    /\ UNCHANGED loadVars
    /\ UNCHANGED pageVars

\* The loop is over: return nearest_name, nearest_coords.
Return ==
    /\ pc = "scan"
    /\ idx > Len(station_map_df)
    /\ applied' = Append(applied,
                         return_value([min_dist |-> min_dist,
                                       nearest_name |-> nearest_name,
                                       nearest_coords |-> nearest_coords]))
    /\ row' = row + 1
    /\ pc' = "apply"
    /\ UNCHANGED <<station_map_df, flood_map_df, lat, lon, idx, min_dist,
                   nearest_name, nearest_coords, geodesic_calls>>
    /\ UNCHANGED renderVars
    /\ UNCHANGED cacheVars
    /\ UNCHANGED loadVars
    /\ UNCHANGED pageVars

\* apply(..., result_type="expand") is done: the two new columns are assigned.
AssignColumns ==
    /\ pc = "apply"
    /\ row > Len(flood_map_df)
    /\ flood_map_df' =
         [r \in DOMAIN flood_map_df |->
            [lat |-> flood_map_df[r].lat,
             lon |-> flood_map_df[r].lon,
             date |-> flood_map_df[r].date,
             Name_of_area |-> flood_map_df[r].Name_of_area,
             nearest_station |-> applied[r][1],
             nearest_coords |-> applied[r][2]]]
    /\ pc' = "hover"
    /\ UNCHANGED <<station_map_df, row, lat, lon, idx, min_dist, nearest_name,
                   nearest_coords, geodesic_calls, applied>>
    /\ UNCHANGED renderVars
    /\ UNCHANGED cacheVars
    /\ UNCHANGED loadVars
    /\ UNCHANGED pageVars

\* flood_map_df['hover_text'] = date + " | " + area + " | Nearest Station: " + ...
BuildHoverText ==
    /\ pc = "hover"
    /\ flood_map_df' =
         [r \in DOMAIN flood_map_df |->
            [lat |-> flood_map_df[r].lat,
             lon |-> flood_map_df[r].lon,
             date |-> flood_map_df[r].date,
             Name_of_area |-> flood_map_df[r].Name_of_area,
             nearest_station |-> flood_map_df[r].nearest_station,
             nearest_coords |-> flood_map_df[r].nearest_coords,
             hover_text |-> hover_text_of(flood_map_df[r])]]
    /\ pc' = "done"
    /\ UNCHANGED <<station_map_df, row, lat, lon, idx, min_dist, nearest_name,
                   nearest_coords, geodesic_calls, applied>>
    /\ UNCHANGED renderVars
    /\ UNCHANGED cacheVars
    /\ UNCHANGED loadVars
    /\ UNCHANGED pageVars

NextMatch == Call \/ Iterate \/ Return \/ AssignColumns \/ BuildHoverText

SpecMatch == InitMatch /\ [][NextMatch]_vars

\* ------------------------------------------------- geotiff_to_temp_png
InitRender ==
    /\ src \in Rasters \cup ExampleRasters
    /\ rpc = "ready"
    /\ branch = "none"
    /\ arr = << >>
    /\ invalid_divide = FALSE
    /\ img = << >>
    /\ tmp_files = {}
    /\ ret_png = << >>
    /\ cache = << >> /\ png = << >> /\ calls = 0
    /\ fn = "none" /\ tif_path = "none" /\ hit = FALSE
    /\ flood_csv = << >> /\ rain_csv = << >>
    /\ flood_df = << >> /\ rain_df = << >>
    /\ absent = {} /\ broken = {} /\ ppc = "done"
    /\ errors = {} /\ rendered = {} /\ exception = "none"
    /\ widgets = DefaultWidgets /\ runs = 0 /\ basins_file = SampleBasins
    /\ load_cache = << >>
    /\ FreshScript
    /\ station_map_df = << >>
    /\ flood_map_df = << >>
    /\ pc = "done"
    /\ row = 1
    /\ lat = 0 /\ lon = 0 /\ idx = 1
    /\ min_dist = inf /\ nearest_name = NoneName /\ nearest_coords = NoneCoords
    /\ geodesic_calls = 0
    /\ applied = << >>

\* tempfile.NamedTemporaryFile(suffix=".png", delete=False), img.save, return:
\* a new file is written and its name returned with the bounds.
save_and_return(image) ==
    LET name == Cardinality(tmp_files) + 1 IN
    /\ img' = image
    /\ tmp_files' = tmp_files \cup {name}
    /\ ret_png' = <<name, src.bounds>>
    /\ rpc' = "returned"
    /\ UNCHANGED src
    /\ UNCHANGED matchVars
    /\ UNCHANGED cacheVars
    /\ UNCHANGED loadVars
    /\ UNCHANGED pageVars

\* if src.count >= 4
RenderRGBA ==
    /\ rpc = "ready"
    /\ src.count >= 4
    /\ branch' = "rgba"
    /\ invalid_divide' = FALSE
    /\ \E image \in rgba_images(src) :
          arr' = image /\ save_and_return(image)

\* elif src.count == 3
RenderRGB ==
    /\ rpc = "ready"
    /\ ~(src.count >= 4)
    /\ src.count = 3
    /\ branch' = "rgb"
    /\ invalid_divide' = FALSE
    /\ \E image \in rgb_images(src) :
          /\ arr' = [p \in DOMAIN image |-> <<image[p][1], image[p][2], image[p][3]>>]
          /\ save_and_return(image)

\* else
RenderGray ==
    /\ rpc = "ready"
    /\ ~(src.count >= 4)
    /\ ~(src.count = 3)
    /\ branch' = "gray"
    /\ invalid_divide' = rescale_divides_by_zero(src)
    /\ \E a \in gray_arrays(src) :
          arr' = a /\ save_and_return(gray_rgba(a))

geotiff_to_temp_png == RenderRGBA \/ RenderRGB \/ RenderGray

NextRender == geotiff_to_temp_png

SpecRender == InitRender /\ [][NextRender]_vars

\* ------------------------------------------- st.cache_data, lines 478, 682
\* The two definitions of geotiff_to_temp_png: the one of the LULC-Slope-River
\* map (line 479) and the one of the RPI-Rainfall-Q map (line 683). Each is
\* wrapped by st.cache_data, whose entries are keyed by the function and its
\* argument.
slope_tif == "data/slope_map.tif"
lulc_files ==
    [d \in {"2020-09-15", "2021-09-30", "2022-09-15", "2023-09-20", "2025-08-15"} |->
        CASE d = "2020-09-15" -> "data/lulc_2020_styled.tif"
          [] d = "2021-09-30" -> "data/lulc_2021_styled.tif"
          [] d = "2022-09-15" -> "data/lulc_2022_styled.tif"
          [] d = "2023-09-20" -> "data/lulc_2023_styled.tif"
          [] d = "2025-08-15" -> "data/lulc_2025_styled.tif"]
raster_files ==
    [k \in {"RPI", "Rainfall", "Q"} |->
        CASE k = "RPI" -> "data/RPI_2025.tif"
          [] k = "Rainfall" -> "data/rainfall_babon.tif"
          [] k = "Q" -> "data/Q_map.tif"]

LulcPaths == {lulc_files[d] : d \in DOMAIN lulc_files}
RpiPaths == {raster_files[k] : k \in DOMAIN raster_files}

\* the calls the script makes: lines 511, 524 and lines 711, 722, 733
CachedCalls ==
    ({"geotiff_to_temp_png@479"} \X ({slope_tif} \cup LulcPaths))
        \cup ({"geotiff_to_temp_png@683"} \X RpiPaths)

\* The rasters behind the paths: a sample with every branch of the dispatch,
\* and with rasters whose render is not a function of the file (a float
\* outside [0,255], a constant band).
raster_at(path) ==
    CASE path = slope_tif ->
           [count |-> 1, nodata |-> <<0>>, dtype |-> "int16",
            bounds |-> RasterBounds, bands |-> << <<0, 7, 256>> >>]
      [] path = "data/lulc_2025_styled.tif" ->
           [count |-> 4, nodata |-> << >>, dtype |-> "float32",
            bounds |-> RasterBounds,
            bands |-> << <<7>>, <<256>>, <<0>>, <<255>> >>]
      [] path \in LulcPaths \ {"data/lulc_2025_styled.tif"} ->
           [count |-> 4, nodata |-> << >>, dtype |-> "int16",
            bounds |-> RasterBounds,
            bands |-> << <<7>>, <<0>>, <<7>>, <<255>> >>]
      [] path = "data/RPI_2025.tif" ->
           [count |-> 1, nodata |-> << >>, dtype |-> "float32",
            bounds |-> RasterBounds, bands |-> << <<7, 7>> >>]
      [] path = "data/rainfall_babon.tif" ->
           [count |-> 1, nodata |-> <<0>>, dtype |-> "float32",
            bounds |-> RasterBounds, bands |-> << <<0, 10, 20, 30>> >>]
      [] path = "data/Q_map.tif" ->
           [count |-> 3, nodata |-> << >>, dtype |-> "int16",
            bounds |-> RasterBounds, bands |-> << <<7>>, <<0>>, <<256>> >>]

\* What the body of geotiff_to_temp_png can compute for a raster: the branch
\* of the dispatch, the np.uint8 array and the image.
render_outcomes(raster) ==
    IF raster.count >= 4
    THEN {[branch |-> "rgba", arr |-> im, invalid_divide |-> FALSE, img |-> im] :
             im \in rgba_images(raster)}
    ELSE IF raster.count = 3
    THEN {[branch |-> "rgb",
           arr |-> [p \in DOMAIN im |-> <<im[p][1], im[p][2], im[p][3]>>],
           invalid_divide |-> FALSE, img |-> im] : im \in rgb_images(raster)}
    ELSE {[branch |-> "gray", arr |-> a,
           invalid_divide |-> rescale_divides_by_zero(raster),
           img |-> gray_rgba(a)] : a \in gray_arrays(raster)}

InitCache ==
    /\ src = RenderIdle
    /\ rpc = "ready"
    /\ branch = "none"
    /\ arr = << >>
    /\ invalid_divide = FALSE
    /\ img = << >>
    /\ tmp_files = {}
    /\ ret_png = << >>
    /\ cache = << >> /\ png = << >> /\ calls = 0
    /\ fn = "none" /\ tif_path = "none" /\ hit = FALSE
    /\ flood_csv = << >> /\ rain_csv = << >>
    /\ flood_df = << >> /\ rain_df = << >>
    /\ absent = {} /\ broken = {} /\ ppc = "done"
    /\ errors = {} /\ rendered = {} /\ exception = "none"
    /\ widgets = DefaultWidgets /\ runs = 0 /\ basins_file = SampleBasins
    /\ load_cache = << >>
    /\ FreshScript
    /\ station_map_df = << >>
    /\ flood_map_df = << >>
    /\ pc = "done"
    /\ row = 1
    /\ lat = 0 /\ lon = 0 /\ idx = 1
    /\ min_dist = inf /\ nearest_name = NoneName /\ nearest_coords = NoneCoords
    /\ geodesic_calls = 0
    /\ applied = << >>

run_body_no_store(f, path) ==
    /\ \E out \in render_outcomes(raster_at(path)) :
          LET name == Cardinality(tmp_files) + 1 IN
          /\ src' = raster_at(path)
          /\ branch' = out.branch
          /\ arr' = out.arr
          /\ invalid_divide' = out.invalid_divide
          /\ img' = out.img
          /\ tmp_files' = tmp_files \cup {name}
          /\ png' = png @@ (name :> out.img)
          /\ ret_png' = <<name, raster_at(path).bounds>>
          /\ cache' = cache
    /\ rpc' = "returned"
    /\ calls' = calls + 1
    /\ fn' = f /\ tif_path' = path /\ hit' = FALSE

\* The body of geotiff_to_temp_png runs for a key that is not in the cache:
\* it writes a new temporary file, and st.cache_data stores the returned
\* value under the key.
run_body(f, path) ==
    /\ \E out \in render_outcomes(raster_at(path)) :
          LET name == Cardinality(tmp_files) + 1 IN
          /\ src' = raster_at(path)
          /\ branch' = out.branch
          /\ arr' = out.arr
          /\ invalid_divide' = out.invalid_divide
          /\ img' = out.img
          /\ tmp_files' = tmp_files \cup {name}
          /\ png' = png @@ (name :> out.img)
          /\ ret_png' = <<name, raster_at(path).bounds>>
          /\ cache' = cache @@ (<<f, path>> :> <<name, raster_at(path).bounds>>)
    /\ rpc' = "returned"
    /\ calls' = calls + 1
    /\ fn' = f /\ tif_path' = path /\ hit' = FALSE

\* st.cache_data answers a call whose key is in the cache: the stored value
\* is returned and the body does not run.
answer_from_cache(f, path) ==
    /\ ret_png' = cache[<<f, path>>]
    /\ calls' = calls + 1
    /\ fn' = f /\ tif_path' = path /\ hit' = TRUE
    /\ UNCHANGED <<src, rpc, branch, arr, invalid_divide, img, tmp_files,
                   cache, png>>

\* One call geotiff_to_temp_png(path) of the function defined at line f.
cached_call(f, path) ==
    IF <<f, path>> \in DOMAIN cache
    THEN answer_from_cache(f, path)
    ELSE run_body(f, path)

\* a call of a raster that was not rendered before
CacheMiss(f, path) ==
    /\ calls < MaxCalls
    /\ <<f, path>> \notin DOMAIN cache
    /\ cached_call(f, path)
    /\ UNCHANGED load_cache
    /\ UNCHANGED matchVars
    /\ UNCHANGED loadVars
    /\ UNCHANGED pageVars

\* a call of a raster that was rendered before
CacheHit(f, path) ==
    /\ calls < MaxCalls
    /\ <<f, path>> \in DOMAIN cache
    /\ cached_call(f, path)
    /\ UNCHANGED load_cache
    /\ UNCHANGED matchVars
    /\ UNCHANGED loadVars
    /\ UNCHANGED pageVars

NextCache ==
    \E k \in CachedCalls : CacheMiss(k[1], k[2]) \/ CacheHit(k[1], k[2])

SpecCache == InitCache /\ [][NextCache]_vars

\* ----------------------------------------------------- load_data, line 91
flood_path == "data/flood_data_with_latlon.csv"
rain_path == "data/rainfall_data_filtered.csv"

\* A missing value of a DataFrame cell (NaN, NaT): a cell is << >> when
\* missing and <<v>> when it holds v. A date is <<year, month, day>>, so NaT
\* is << >> as well.
isna(cell) == cell = << >>

\* The text of a date cell, split at "/": "2/6/21" is <<2, 6, 21>>, the empty
\* cell is << >>.
RawDates == {<<2, 6, 21>>, <<12, 31, 99>>, <<2, 30, 21>>, <<2, 6, 2021>>, << >>}

\* The rows of the incident file: rows that parse, and rows with a
\* coordinate or a date that does not.
RawFloodRows ==
    {[lat |-> "1", lon |-> "0", date |-> <<2, 6, 21>>, Name_of_area |-> "Genuk"],
     [lat |-> "0", lon |-> "1.0", date |-> <<12, 31, 99>>, Name_of_area |-> "Genuk"],
     [lat |-> "x", lon |-> "0", date |-> <<2, 6, 21>>, Name_of_area |-> "Genuk"],
     [lat |-> "1", lon |-> "", date |-> <<2, 6, 21>>, Name_of_area |-> "Genuk"],
     [lat |-> "1", lon |-> "0", date |-> <<2, 30, 21>>, Name_of_area |-> "Genuk"],
     [lat |-> "x", lon |-> "", date |-> <<2, 6, 2021>>, Name_of_area |-> "Genuk"]}

\* The rows of the rainfall file: one station on two dates and written in two
\* ways, a second station at the same place, and rows that do not parse.
RawRainRows ==
    {[Lat_DD |-> "1", Lon_DD |-> "0", location_name |-> "A", date |-> <<2, 6, 21>>],
     [Lat_DD |-> "1.0", Lon_DD |-> "0", location_name |-> "A", date |-> <<2, 6, 21>>],
     [Lat_DD |-> "1", Lon_DD |-> "0", location_name |-> "A", date |-> <<12, 31, 99>>],
     [Lat_DD |-> "1", Lon_DD |-> "0", location_name |-> "B", date |-> <<2, 6, 21>>],
     [Lat_DD |-> "x", Lon_DD |-> "0", location_name |-> "A", date |-> <<2, 6, 21>>],
     [Lat_DD |-> "1", Lon_DD |-> "", location_name |-> "A", date |-> <<2, 6, 21>>],
     [Lat_DD |-> "1", Lon_DD |-> "0", location_name |-> "A", date |-> << >>]}

\* pd.to_numeric(column, errors='coerce') on one cell: the number the text
\* denotes, NaN for a text that is no number and for the empty cell
to_numeric(text) ==
    CASE text = "0" -> <<0>>
      [] text = "1" -> <<1>>
      [] text = "1.0" -> <<1>>
      [] OTHER -> << >>

is_leap(y) == (y % 4 = 0 /\ y % 100 # 0) \/ y % 400 = 0
days_in_month(y, m) ==
    IF m = 2 THEN (IF is_leap(y) THEN 29 ELSE 28)
    ELSE IF m \in {4, 6, 9, 11} THEN 30 ELSE 31

\* pd.to_datetime(column, format="%m/%d/%y", errors='coerce') on one cell:
\* %y takes two digits, 00-68 are 2000-2068 and 69-99 are 1969-1999; a text
\* that does not match the format, or names no day of the calendar, gives NaT
to_datetime(text) ==
    IF Len(text) # 3 THEN << >>
    ELSE LET m == text[1]
             d == text[2]
             yy == text[3]
             y == IF yy <= 68 THEN 2000 + yy ELSE 1900 + yy
         IN IF /\ m \in 1 .. 12
               /\ yy \in 0 .. 99
               /\ d \in 1 .. days_in_month(y, m)
            THEN <<y, m, d>> ELSE << >>

\* df.dropna(subset=cols): the rows with no missing value in cols, in order
RECURSIVE dropna(_, _)
dropna(df, cols) ==
    IF df = << >> THEN << >>
    ELSE IF \E c \in cols : isna(Head(df)[c])
         THEN dropna(Tail(df), cols)
         ELSE <<Head(df)>> \o dropna(Tail(df), cols)

load_data_keep_dates(fcsv, rcsv) ==
    LET flood1 == [i \in DOMAIN fcsv |->
                     [fcsv[i] EXCEPT !.date = to_datetime(@)]]
        rain1 == [i \in DOMAIN rcsv |->
                     [rcsv[i] EXCEPT !.date = to_datetime(@)]]
        flood2 == [i \in DOMAIN flood1 |->
                     [flood1[i] EXCEPT !.lat = to_numeric(@),
                                       !.lon = to_numeric(@)]]
        flood3 == dropna(flood2, {"lat", "lon"})
        rain2 == [i \in DOMAIN rain1 |->
                     [rain1[i] EXCEPT !.Lat_DD = to_numeric(@),
                                      !.Lon_DD = to_numeric(@)]]
        rain3 == dropna(rain2, {"Lat_DD", "Lon_DD"})
    IN <<flood3, rain3>>

\* lines 102-120: what load_data returns for the rows of the two files
load_data(fcsv, rcsv) ==
    LET flood1 == [i \in DOMAIN fcsv |->
                     [fcsv[i] EXCEPT !.date = to_datetime(@)]]
        rain1 == [i \in DOMAIN rcsv |->
                     [rcsv[i] EXCEPT !.date = to_datetime(@)]]
        flood2 == [i \in DOMAIN flood1 |->
                     [flood1[i] EXCEPT !.lat = to_numeric(@),
                                       !.lon = to_numeric(@)]]
        flood3 == dropna(flood2, {"lat", "lon"})
        rain2 == [i \in DOMAIN rain1 |->
                     [rain1[i] EXCEPT !.Lat_DD = to_numeric(@),
                                      !.Lon_DD = to_numeric(@)]]
        rain3 == dropna(rain2, {"Lat_DD", "Lon_DD"})
        rain4 == dropna(rain3, {"date"})
        flood4 == dropna(flood3, {"date"})
    IN <<flood4, rain4>>

drop_duplicates_by_coords(df) ==
    LET keep == {i \in DOMAIN df :
                    \A j \in 1 .. (i - 1) :
                        <<df[j].Lat_DD, df[j].Lon_DD>> # <<df[i].Lat_DD, df[i].Lon_DD>>}
        RECURSIVE take(_)
        take(i) == IF i > Len(df) THEN << >>
                   ELSE (IF i \in keep THEN <<df[i]>> ELSE << >>) \o take(i + 1)
    IN take(1)

\* DataFrame.drop_duplicates(): of the rows that are equal in every column,
\* the first is kept
drop_duplicates(df) ==
    LET keep == {i \in DOMAIN df : \A j \in 1 .. (i - 1) : df[j] # df[i]}
        RECURSIVE take(_)
        take(i) == IF i > Len(df) THEN << >>
                   ELSE (IF i \in keep THEN <<df[i]>> ELSE << >>) \o take(i + 1)
    IN take(1)

\* rain_df[['Lat_DD','Lon_DD','location_name']]
station_columns(df) ==
    [i \in DOMAIN df |->
        [Lat_DD |-> df[i].Lat_DD, Lon_DD |-> df[i].Lon_DD,
         location_name |-> df[i].location_name]]

\* lines 128-130: hover_text is the station name, the coordinate columns are
\* renamed
station_rows(df) ==
    [i \in DOMAIN df |->
        [lat |-> df[i].Lat_DD[1], lon |-> df[i].Lon_DD[1],
         hover_text |-> df[i].location_name]]

MatchIdle ==
    /\ station_map_df = << >>
    /\ flood_map_df = << >>
    /\ pc = "done"
    /\ row = 1
    /\ lat = 0 /\ lon = 0 /\ idx = 1
    /\ min_dist = inf /\ nearest_name = NoneName /\ nearest_coords = NoneCoords
    /\ geodesic_calls = 0
    /\ applied = << >>

RenderNotCalled ==
    /\ src = RenderIdle
    /\ rpc = "ready"
    /\ branch = "none"
    /\ arr = << >>
    /\ invalid_divide = FALSE
    /\ img = << >>
    /\ tmp_files = {}
    /\ ret_png = << >>
    /\ cache = << >> /\ png = << >> /\ calls = 0
    /\ fn = "none" /\ tif_path = "none" /\ hit = FALSE

InitLoad ==
    /\ flood_csv \in SeqsUpTo(RawFloodRows, MaxCsvRows)
    /\ rain_csv \in SeqsUpTo(RawRainRows, MaxCsvRows)
    /\ flood_df = << >> /\ rain_df = << >>
    /\ absent = {} /\ broken = {}
    /\ ppc = "load_data"
    /\ errors = {} /\ rendered = {} /\ exception = "none"
    /\ widgets = DefaultWidgets /\ runs = 0 /\ basins_file = SampleBasins
    /\ load_cache = << >>
    /\ FreshScript
    /\ MatchIdle
    /\ RenderNotCalled

\* lines 90-122: load_data is wrapped by st.cache_data and has no argument.
\* When a value is stored, it is returned and the body does not run.
\* Otherwise the first file of [flood_path, rain_path] that does not exist is
\* reported with st.error and st.stop() ends the run, with nothing stored; if
\* both exist the two tables are read, converted and filtered, and the result
\* is stored.
LoadData ==
    /\ ppc = "load_data"
    /\ IF load_cache # << >>
       THEN /\ flood_df' = load_cache[1][1]
            /\ rain_df' = load_cache[1][2]
            /\ ppc' = "station_map_df"
            /\ UNCHANGED <<errors, load_cache>>
       ELSE IF \E path \in {flood_path, rain_path} : path \in absent
       THEN /\ errors' = errors \cup
                   {IF flood_path \in absent THEN flood_path ELSE rain_path}
            /\ ppc' = "stopped"
            /\ UNCHANGED <<flood_df, rain_df, load_cache>>
       ELSE /\ flood_df' = load_data(flood_csv, rain_csv)[1]
            /\ rain_df' = load_data(flood_csv, rain_csv)[2]
            /\ load_cache' = <<load_data(flood_csv, rain_csv)>>
            /\ ppc' = "station_map_df"
            /\ UNCHANGED errors
    /\ UNCHANGED <<flood_csv, rain_csv, absent, broken, rendered, exception>>
    /\ UNCHANGED <<matchVars, renderVars>>
    /\ UNCHANGED <<cache, png, calls, fn, tif_path, hit>>
    /\ UNCHANGED sessionVars
    /\ UNCHANGED scriptVars

\* lines 127-130: the station table
PrepareStations ==
    /\ ppc = "station_map_df"
    /\ station_map_df' = station_rows(drop_duplicates(station_columns(rain_df)))
    /\ ppc' = "flood_map_df"
    /\ UNCHANGED <<flood_map_df, pc, row, lat, lon, idx, min_dist, nearest_name,
                   nearest_coords, geodesic_calls, applied>>
    /\ UNCHANGED <<absent, broken, errors, rendered, exception>>
    /\ UNCHANGED <<loadVars, renderVars, cacheVars>>
    /\ UNCHANGED sessionVars
    /\ UNCHANGED scriptVars

NextLoad == LoadData \/ PrepareStations

SpecLoad == InitLoad /\ [][NextLoad]_vars

\* ------------------------------------------------- one run of the script
river_path == "data/babon_channel.geojson"
geojson_path == "data/Runoff_statistic_styled.geojson"

RasterPaths == {slope_tif} \cup LulcPaths \cup RpiPaths
RequiredFiles == {flood_path, rain_path, river_path, geojson_path} \cup RasterPaths

\* The tables of a run: a row that parses and a row that does not.
SampleFloodCsv ==
    << [lat |-> "1", lon |-> "0", date |-> <<2, 6, 21>>, Name_of_area |-> "Genuk"],
       [lat |-> "x", lon |-> "0", date |-> <<2, 6, 21>>, Name_of_area |-> "Genuk"] >>
SampleRainCsv ==
    << [Lat_DD |-> "1", Lon_DD |-> "0", location_name |-> "A", date |-> <<2, 6, 21>>],
       [Lat_DD |-> "1", Lon_DD |-> "0", location_name |-> "A", date |-> <<12, 31, 99>>] >>

\* The first run of the script in a new process: the caches are empty, and
\* some input files are absent or unreadable.
InitPage ==
    /\ absent \in SUBSET RequiredFiles
    /\ broken \in SUBSET RasterPaths
    /\ absent \cap broken = {}
    /\ Cardinality(absent \cup broken) <= MaxBadFiles
    /\ flood_csv = SampleFloodCsv
    /\ rain_csv = SampleRainCsv
    /\ flood_df = << >> /\ rain_df = << >>
    /\ ppc = "load_data"
    /\ errors = {} /\ rendered = {} /\ exception = "none"
    /\ widgets = DefaultWidgets /\ runs = 0 /\ basins_file = SampleBasins
    /\ load_cache = << >>
    /\ FreshScript
    /\ MatchIdle
    /\ RenderNotCalled

\* lines 131-153 in one step: flood_map_df with the nearest station and the
\* hover text of every row
match_stations(df, station_df) ==
    [i \in DOMAIN df |->
        LET r == [lat |-> df[i].lat[1], lon |-> df[i].lon[1],
                  date |-> df[i].date, Name_of_area |-> df[i].Name_of_area,
                  nearest_station |->
                      find_nearest_station(df[i].lat[1], df[i].lon[1], station_df)[1],
                  nearest_coords |->
                      find_nearest_station(df[i].lat[1], df[i].lon[1], station_df)[2]]
        IN [lat |-> r.lat, lon |-> r.lon, date |-> r.date,
            Name_of_area |-> r.Name_of_area,
            nearest_station |-> r.nearest_station,
            nearest_coords |-> r.nearest_coords,
            hover_text |-> hover_text_of(r)]]

\* lines 131-153: flood_map_df and its nearest stations
IncidentMap ==
    /\ ppc = "flood_map_df"
    /\ flood_map_df' = match_stations(flood_df, station_map_df)
    /\ ppc' = "point_map"
    /\ UNCHANGED <<station_map_df, pc, row, lat, lon, idx, min_dist, nearest_name,
                   nearest_coords, geodesic_calls, applied>>
    /\ UNCHANGED <<absent, broken, errors, rendered, exception>>
    /\ UNCHANGED <<loadVars, renderVars, cacheVars>>
    /\ UNCHANGED sessionVars
    /\ UNCHANGED scriptVars

\* ---------------------------------------------- the point map, line 174
\* the order of two dates <<year, month, day>>
date_lt(a, b) ==
    \/ a[1] < b[1]
    \/ a[1] = b[1] /\ a[2] < b[2]
    \/ a[1] = b[1] /\ a[2] = b[2] /\ a[3] < b[3]

\* flood_map_df['date'].min().date() and .max().date() of a table with rows
min_date(df) ==
    CHOOSE d \in {df[i].date : i \in DOMAIN df} :
        \A i \in DOMAIN df : ~date_lt(df[i].date, d)
max_date(df) ==
    CHOOSE d \in {df[i].date : i \in DOMAIN df} :
        \A i \in DOMAIN df : ~date_lt(d, df[i].date)

\* the days the date slider can stand on: every day from min_date to max_date
Calendar ==
    {d \in {2021} \X (2 .. 3) \X (1 .. 31) : d[3] <= days_in_month(d[1], d[2])}
slider_dates(df) ==
    {d \in Calendar : ~date_lt(d, min_date(df)) /\ ~date_lt(max_date(df), d)}

\* line 174
station_options(station_df) ==
    <<"All Stations">> \o [i \in DOMAIN station_df |-> station_df[i].hover_text]

\* line 224: flood_map_df[flood_map_df['date'].dt.date == selected_date]
flood_selected_df(df, date) ==
    SelectSeq(df, LAMBDA r : r.date = date)

flood_to_plot_by_station(station, show_all, date, df) ==
    IF station = "All Stations"
    THEN (IF show_all THEN df ELSE flood_selected_df(df, date))
    ELSE SelectSeq(flood_selected_df(df, date),
                   LAMBDA r : r.nearest_station = station)

\* lines 226-234
flood_to_plot_of(station, show_all, date, df) ==
    IF station = "All Stations"
    THEN (IF show_all THEN df ELSE flood_selected_df(df, date))
    ELSE flood_selected_df(df, date)

\* the value st.selectbox returns: the stored choice, or the first option
\* when the stored choice is not an option
selectbox_value(options, stored) ==
    IF \E i \in DOMAIN options : options[i] = stored THEN stored ELSE options[1]

\* the value the date slider returns: min_date until the slider is moved
slider_value(df, stored) ==
    IF stored \in slider_dates(df) THEN stored ELSE min_date(df)

\* lines 254-262: one marker per station, green for the selected one
station_markers_of(station_df, station) ==
    [i \in DOMAIN station_df |->
        [location |-> <<station_df[i].lat, station_df[i].lon>>,
         popup |-> station_df[i].hover_text,
         color |-> IF station_df[i].hover_text = station THEN "green" ELSE "blue"]]

\* lines 264-271: one red marker per row of flood_to_plot
flood_markers_of(df) ==
    [i \in DOMAIN df |->
        [location |-> <<df[i].lat, df[i].lon>>, popup |-> df[i].hover_text,
         color |-> "red"]]

\* lines 154-430: the station selector, the date slider, the filter, the
\* point map and the rainfall charts. With no flood row min_date is NaT and
\* the slider cannot be built; with nothing to plot and no station the map
\* centre is NaN, which folium.Map rejects.
PointMap ==
    /\ ppc = "point_map"
    /\ IF flood_map_df = << >>
       THEN /\ exception' = "st.slider"
            /\ ppc' = "exception"
            /\ UNCHANGED <<rendered, flood_to_plot, station_markers, flood_markers>>
       ELSE LET station == selectbox_value(station_options(station_map_df),
                                           widgets.selected_station)
                date == slider_value(flood_map_df, widgets.flood_date)
                plot == flood_to_plot_of(station, widgets.show_all_floods, date,
                                         flood_map_df)
            IN IF plot = << >> /\ station_map_df = << >>
               THEN /\ exception' = "folium.Map"
                    /\ ppc' = "exception"
                    /\ flood_to_plot' = plot
                    /\ UNCHANGED <<rendered, station_markers, flood_markers>>
               ELSE /\ flood_to_plot' = plot
                    /\ station_markers' = station_markers_of(station_map_df, station)
                    /\ flood_markers' = flood_markers_of(plot)
                    /\ rendered' = rendered \cup {"point_map", "rainfall_trends"}
                    /\ ppc' = "load_geojson"
                    /\ UNCHANGED exception
    /\ UNCHANGED <<absent, broken, errors>>
    /\ UNCHANGED <<matchVars, loadVars, renderVars, cacheVars>>
    /\ UNCHANGED sessionVars
    /\ UNCHANGED <<temp_files, selected_date, basins_geojson, styles, metrics>>

\* lines 436-448: load_geojson opens the river file with no handler around it
LoadRiver ==
    /\ ppc = "load_geojson"
    /\ IF river_path \in absent
       THEN exception' = river_path /\ ppc' = "exception"
       ELSE exception' = exception /\ ppc' = "select_slider"
    /\ UNCHANGED <<absent, broken, errors, rendered>>
    /\ UNCHANGED <<matchVars, loadVars, renderVars, cacheVars>>
    /\ UNCHANGED sessionVars
    /\ UNCHANGED scriptVars

\* "if show_x: png_file, bounds = geotiff_to_temp_png(path);
\* temp_files.append(png_file); ImageOverlay(...)", where files is the list
\* temp_files before the if: rasterio.open raises for a file that is absent
\* or unreadable, and nothing around the call catches it.
raster_layer(show, f, path, layer, next, files) ==
    IF ~show
    THEN /\ ppc' = next
         /\ temp_files' = files
         /\ UNCHANGED <<rendered, exception, renderVars>>
         /\ UNCHANGED <<cache, png, calls, fn, tif_path, hit>>
    ELSE IF <<f, path>> \notin DOMAIN cache /\ path \in absent \cup broken
    THEN /\ exception' = path
         /\ ppc' = "exception"
         /\ temp_files' = files
         /\ UNCHANGED <<rendered, renderVars>>
         /\ UNCHANGED <<cache, png, calls, fn, tif_path, hit>>
    ELSE /\ cached_call(f, path)
         /\ temp_files' = Append(files, ret_png'[1])
         /\ rendered' = rendered \cup {layer}
         /\ ppc' = next
         /\ UNCHANGED exception

\* the keys of lulc_files in the order of the dict
lulc_keys ==
    <<"2020-09-15", "2021-09-30", "2022-09-15", "2023-09-20", "2025-08-15">>

\* int(d.split("-")[0]): the year a key starts with
year_of ==
    [d \in DOMAIN lulc_files |->
        CHOOSE y \in 2000 .. 2099 :
            \E m \in 1 .. 12, dd \in 1 .. 31 :
                d = FourDigits(y) \o "-" \o TwoDigits(m) \o "-" \o TwoDigits(dd)]

\* line 453: the options of the year slider
available_years == {year_of[d] : d \in DOMAIN lulc_files}

\* line 459: next(d for d in lulc_files.keys() if year(d) == selected_year);
\* next() raises StopIteration when no key has the year
first_key_of_year(year) ==
    LET found == {i \in DOMAIN lulc_keys : year_of[lulc_keys[i]] = year}
    IN IF found = {} THEN "StopIteration"
       ELSE lulc_keys[CHOOSE i \in found : \A j \in found : i <= j]

lulc_phase_until_2023 ==
    [d \in {"2020-09-15", "2021-09-30", "2022-09-15", "2023-09-20"} |->
        IF d = "2023-09-20" THEN "El Nino" ELSE "Normal"]

\* lines 596-602
lulc_phase ==
    [d \in {"2020-09-15", "2021-09-30", "2022-09-15", "2023-09-20", "2025-08-15"} |->
        IF d = "2023-09-20" THEN "El Nino" ELSE "Normal"]

\* lines 453-461: the year slider and the LULC date of the selected year
SelectLulcDate ==
    /\ ppc = "select_slider"
    /\ LET d == first_key_of_year(widgets.selected_year)
       IN IF d = "StopIteration" \/ d \notin DOMAIN lulc_files
          THEN /\ exception' = (IF d = "StopIteration" THEN d ELSE "KeyError")
               /\ ppc' = "exception"
               /\ UNCHANGED selected_date
          ELSE /\ selected_date' = d
               /\ ppc' = "show_slope"
               /\ UNCHANGED exception
    /\ UNCHANGED <<absent, broken, errors, rendered>>
    /\ UNCHANGED <<matchVars, loadVars, renderVars, cacheVars>>
    /\ UNCHANGED sessionVars
    /\ UNCHANGED <<temp_files, flood_to_plot, station_markers, flood_markers,
                   basins_geojson, styles, metrics>>

\* lines 466, 509-521
SlopeLayer ==
    /\ ppc = "show_slope"
    /\ raster_layer(widgets.show_slope, "geotiff_to_temp_png@479", slope_tif,
                    "slope", "show_lulc", << >>)
    /\ UNCHANGED <<absent, broken, errors, load_cache>>
    /\ UNCHANGED <<matchVars, loadVars>>
    /\ UNCHANGED sessionVars
    /\ UNCHANGED <<selected_date, flood_to_plot, station_markers, flood_markers,
                   basins_geojson, styles, metrics>>

\* lines 460, 467, 523-534
LulcLayer ==
    /\ ppc = "show_lulc"
    /\ raster_layer(widgets.show_lulc, "geotiff_to_temp_png@479",
                    lulc_files[selected_date], "lulc", "show_river", temp_files)
    /\ UNCHANGED <<absent, broken, errors, load_cache>>
    /\ UNCHANGED <<matchVars, loadVars>>
    /\ UNCHANGED sessionVars
    /\ UNCHANGED <<selected_date, flood_to_plot, station_markers, flood_markers,
                   basins_geojson, styles, metrics>>

cleanup_os_remove(disk, files) == disk \ {files[i] : i \in DOMAIN files}

\* lines 555-556, "for f in temp_files: os.remove(f)", are commented out: the
\* files on disk after them are the files before them
cleanup(disk, files) == disk

\* lines 468, 536-556: the river layer, st_folium shows the map, and the
\* temporary files are left on disk
LulcMap ==
    /\ ppc = "show_river"
    /\ rendered' = rendered \cup {"lulc_slope_river_map"}
                            \cup (IF widgets.show_river THEN {"river"} ELSE {})
    /\ tmp_files' = cleanup(tmp_files, temp_files)
    /\ png' = [n \in DOMAIN png \cap cleanup(tmp_files, temp_files) |-> png[n]]
    /\ ppc' = "table_choice"
    /\ UNCHANGED <<absent, broken, errors, exception>>
    /\ UNCHANGED <<matchVars, loadVars>>
    /\ UNCHANGED <<src, rpc, branch, arr, invalid_divide, img, ret_png>>
    /\ UNCHANGED <<cache, calls, fn, tif_path, hit, load_cache>>
    /\ UNCHANGED sessionVars
    /\ UNCHANGED scriptVars

\* lines 605-614: the description table; the LULC table looks the phase of
\* the selected date up, which raises KeyError for a date with no phase
LulcTable ==
    /\ ppc = "table_choice"
    /\ IF widgets.table_choice = "Slope"
       THEN /\ rendered' = rendered \cup {"slope_table"}
            /\ ppc' = "show_rpi"
            /\ UNCHANGED exception
       ELSE IF selected_date \notin DOMAIN lulc_phase
       THEN /\ exception' = "KeyError"
            /\ ppc' = "exception"
            /\ UNCHANGED rendered
       ELSE /\ rendered' = rendered \cup
                   {IF lulc_phase[selected_date] = "Normal"
                    THEN "lulc_table_normal" ELSE "lulc_table_el_nino"}
            /\ ppc' = "show_rpi"
            /\ UNCHANGED exception
    /\ UNCHANGED <<absent, broken, errors>>
    /\ UNCHANGED <<matchVars, loadVars, renderVars, cacheVars>>
    /\ UNCHANGED sessionVars
    /\ UNCHANGED scriptVars

\* lines 670, 709-719
RpiLayer ==
    /\ ppc = "show_rpi"
    /\ raster_layer(widgets.show_rpi, "geotiff_to_temp_png@683",
                    raster_files["RPI"], "rpi", "show_rainfall", << >>)
    /\ UNCHANGED <<absent, broken, errors, load_cache>>
    /\ UNCHANGED <<matchVars, loadVars>>
    /\ UNCHANGED sessionVars
    /\ UNCHANGED <<selected_date, flood_to_plot, station_markers, flood_markers,
                   basins_geojson, styles, metrics>>

\* lines 671, 721-730
RainfallLayer ==
    /\ ppc = "show_rainfall"
    /\ raster_layer(widgets.show_rainfall, "geotiff_to_temp_png@683",
                    raster_files["Rainfall"], "rainfall", "show_q", temp_files)
    /\ UNCHANGED <<absent, broken, errors, load_cache>>
    /\ UNCHANGED <<matchVars, loadVars>>
    /\ UNCHANGED sessionVars
    /\ UNCHANGED <<selected_date, flood_to_plot, station_markers, flood_markers,
                   basins_geojson, styles, metrics>>

\* lines 672, 732-741
QLayer ==
    /\ ppc = "show_q"
    /\ raster_layer(widgets.show_q, "geotiff_to_temp_png@683", raster_files["Q"],
                    "q", "rpi_map", temp_files)
    /\ UNCHANGED <<absent, broken, errors, load_cache>>
    /\ UNCHANGED <<matchVars, loadVars>>
    /\ UNCHANGED sessionVars
    /\ UNCHANGED <<selected_date, flood_to_plot, station_markers, flood_markers,
                   basins_geojson, styles, metrics>>

\* line 746: st_folium shows the RPI-Rainfall-Q map
RpiMap ==
    /\ ppc = "rpi_map"
    /\ rendered' = rendered \cup {"rpi_rainfall_q_map"}
    /\ ppc' = "basins_geojson"
    /\ UNCHANGED <<absent, broken, errors, exception>>
    /\ UNCHANGED <<matchVars, loadVars, renderVars, cacheVars>>
    /\ UNCHANGED sessionVars
    /\ UNCHANGED scriptVars

\* 'style' in feature['properties']: an absent key is the empty cell
has_style(feature) == feature.properties.style # << >>

\* a dict with one key assigned: the key is added when it is not there
set_item(dict, key, value) ==
    [k \in DOMAIN dict \cup {key} |-> IF k = key THEN value ELSE dict[k]]

apply_opacity_to_all(features, opacity) ==
    [i \in DOMAIN features |->
        [features[i] EXCEPT !.properties.style =
            <<set_item(IF @ = << >> THEN << >> ELSE @[1], "fillOpacity", opacity)>>]]

\* lines 874-876
apply_opacity(features, opacity) ==
    [i \in DOMAIN features |->
        IF has_style(features[i])
        THEN [features[i] EXCEPT !.properties.style =
                 <<set_item(@[1], "fillOpacity", opacity)>>]
        ELSE features[i]]

\* lines 900-905: lambda feature: feature['properties']['style']
style_function(feature) == feature.properties.style[1]

\* lines 858-908: the opacity slider; the sub-basin file is opened inside
\* try/except FileNotFoundError, which reports it with st.error and calls
\* st.stop(); the opacity loop; the map, whose style function is applied to
\* every feature and raises KeyError for one without 'style'
BasinMap ==
    /\ ppc = "basins_geojson"
    /\ IF geojson_path \in absent
       THEN /\ errors' = errors \cup {geojson_path}
            /\ ppc' = "stopped"
            /\ UNCHANGED <<rendered, exception, basins_geojson, styles>>
       ELSE LET features == apply_opacity(basins_file, widgets.basin_opacity)
            IN /\ basins_geojson' = features
               /\ IF \A i \in DOMAIN features : has_style(features[i])
                  THEN /\ styles' = [i \in DOMAIN features |->
                                        style_function(features[i])]
                       /\ rendered' = rendered \cup {"half_basin_map"}
                       /\ ppc' = "sidebar"
                       /\ UNCHANGED exception
                  ELSE /\ exception' = "KeyError: 'style'"
                       /\ ppc' = "exception"
                       /\ UNCHANGED <<rendered, styles>>
               /\ UNCHANGED errors
    /\ UNCHANGED <<absent, broken>>
    /\ UNCHANGED <<matchVars, loadVars, renderVars, cacheVars>>
    /\ UNCHANGED sessionVars
    /\ UNCHANGED <<temp_files, selected_date, flood_to_plot, station_markers,
                   flood_markers, metrics>>

\* line 1104
flood_incidents_metric(df) == Len(df)

stations_metric_markers(station_df) == Len(station_df)

\* line 1105
stations_metric(station_df) == Len(station_df) - 1

\* lines 1010-1105: the end of the script, with the two sidebar metrics
Sidebar ==
    /\ ppc = "sidebar"
    /\ metrics' = << [label |-> "Flood Incidents",
                      value |-> flood_incidents_metric(flood_map_df)],
                     [label |-> "Stations",
                      value |-> stations_metric(station_map_df)] >>
    /\ rendered' = rendered \cup {"dashboard_metrics"}
    /\ ppc' = "done"
    /\ UNCHANGED <<absent, broken, errors, exception>>
    /\ UNCHANGED <<matchVars, loadVars, renderVars, cacheVars>>
    /\ UNCHANGED sessionVars
    /\ UNCHANGED <<temp_files, selected_date, flood_to_plot, station_markers,
                   flood_markers, basins_geojson, styles>>

NextPage ==
    \/ LoadData
    \/ PrepareStations
    \/ IncidentMap
    \/ PointMap
    \/ LoadRiver
    \/ SelectLulcDate
    \/ SlopeLayer
    \/ LulcLayer
    \/ LulcMap
    \/ LulcTable
    \/ RpiLayer
    \/ RainfallLayer
    \/ QLayer
    \/ RpiMap
    \/ BasinMap
    \/ Sidebar

SpecPage == InitPage /\ [][NextPage]_vars

\* ------------------------------------------------- a session of reruns
\* the places of the script in the order in which a run passes them
ScriptOrder ==
    <<"load_data", "station_map_df", "flood_map_df", "point_map", "load_geojson",
      "select_slider", "show_slope", "show_lulc", "show_river", "table_choice",
      "show_rpi", "show_rainfall", "show_q", "rpi_map", "basins_geojson",
      "sidebar", "done">>
Position(place) == CHOOSE i \in DOMAIN ScriptOrder : ScriptOrder[i] = place

\* the place of the script at which each widget is created
WidgetPlace ==
    [selected_station |-> "point_map", flood_date |-> "point_map",
     show_all_floods |-> "point_map", selected_year |-> "select_slider",
     show_slope |-> "show_slope", show_lulc |-> "show_slope",
     show_river |-> "show_slope", table_choice |-> "table_choice",
     show_rpi |-> "show_rpi", show_rainfall |-> "show_rpi", show_q |-> "show_rpi",
     legend_option |-> "rpi_map", basin_opacity |-> "basins_geojson"]

\* The widget is on the page: the running script has created it. A run that
\* raised had at least created the station selector, and one that raised in
\* a raster layer every widget up to the first three checkboxes; a run
\* stopped by the missing sub-basin file had created every widget, one
\* stopped by a missing CSV file none.
on_page(w) ==
    /\ w = "show_all_floods" => widgets.selected_station = "All Stations"
    /\ IF ppc = "exception"
       THEN \/ w = "selected_station"
            \/ /\ exception \in RasterPaths
               /\ Position(WidgetPlace[w]) <= Position("show_slope")
       ELSE IF ppc = "stopped" THEN geojson_path \in errors
       ELSE Position(ppc) > Position(WidgetPlace[w])

\* the values the user can give a widget
widget_values(w) ==
    CASE w = "selected_station" ->
            {station_options(station_map_df)[i] :
                i \in DOMAIN station_options(station_map_df)}
      [] w = "flood_date" ->
            IF flood_map_df = << >> THEN {} ELSE slider_dates(flood_map_df)
      [] w = "selected_year" -> available_years
      [] w = "table_choice" -> {"Slope", "LULC"}
      [] w = "legend_option" ->
            {"Rainfall", "Discharge (Q)", "Runoff Potential Index (RPI)"}
      [] w = "basin_opacity" -> {0, 70, 100}
      [] OTHER -> BOOLEAN

\* The user changes a widget. Streamlit stores the new value in the session
\* and runs the script again from the top with fresh variables; a run that
\* is still going on is abandoned at its next st. call. The data caches, the
\* files on disk and the other widget values are kept.
WidgetChange(w, v) ==
    /\ runs < MaxReruns
    /\ on_page(w)
    /\ v \in widget_values(w)
    /\ v # widgets[w]
    /\ widgets' = [widgets EXCEPT ![w] = v]
    /\ runs' = runs + 1
    /\ ppc' = "load_data"
    /\ errors' = {} /\ rendered' = {} /\ exception' = "none"
    /\ flood_df' = << >> /\ rain_df' = << >>
    /\ station_map_df' = << >>
    /\ flood_map_df' = << >>
    /\ pc' = "done"
    /\ row' = 1
    /\ lat' = 0 /\ lon' = 0 /\ idx' = 1
    /\ min_dist' = inf /\ nearest_name' = NoneName /\ nearest_coords' = NoneCoords
    /\ geodesic_calls' = 0
    /\ applied' = << >>
    /\ temp_files' = << >> /\ selected_date' = "none" /\ flood_to_plot' = << >>
    /\ station_markers' = << >> /\ flood_markers' = << >>
    /\ basins_geojson' = << >> /\ styles' = << >> /\ metrics' = << >>
    /\ UNCHANGED <<flood_csv, rain_csv, absent, broken, basins_file>>
    /\ UNCHANGED <<renderVars, cacheVars>>

ChangeAnyWidget ==
    \E w \in DOMAIN DefaultWidgets :
        \E v \in widget_values(w) : WidgetChange(w, v)

NextSession == NextPage \/ ChangeAnyWidget

SpecSession == InitPage /\ [][NextSession]_vars

\* ------------------------------------- the two raster maps over reruns
\* the widgets the raster sections read
RasterWidgets ==
    {"selected_year", "show_slope", "show_lulc", "show_river", "table_choice",
     "show_rpi", "show_rainfall", "show_q"}

\* The script has reached line 453 in the first run of a new process, with
\* every raster readable or one LULC raster unreadable.
InitRasters ==
    /\ absent = {}
    /\ broken \in {{}, {lulc_files["2021-09-30"]}}
    /\ ppc = "select_slider"
    /\ widgets = DefaultWidgets /\ runs = 0 /\ basins_file = SampleBasins
    /\ flood_csv = << >> /\ rain_csv = << >>
    /\ flood_df = << >> /\ rain_df = << >>
    /\ errors = {} /\ rendered = {} /\ exception = "none"
    /\ load_cache = << >>
    /\ FreshScript
    /\ MatchIdle
    /\ RenderNotCalled

\* WidgetChange for a widget of the raster sections, followed up to line 452:
\* the lines before 453 read and write nothing of the raster sections, and the
\* new run arrives at line 453 with its variables fresh.
RasterWidgetChange(w, v) ==
    /\ w \in RasterWidgets
    /\ runs < MaxReruns
    /\ on_page(w)
    /\ v \in widget_values(w)
    /\ v # widgets[w]
    /\ widgets' = [widgets EXCEPT ![w] = v]
    /\ runs' = runs + 1
    /\ ppc' = "select_slider"
    /\ errors' = {} /\ rendered' = {} /\ exception' = "none"
    /\ temp_files' = << >> /\ selected_date' = "none"
    /\ UNCHANGED <<flood_to_plot, station_markers, flood_markers,
                   basins_geojson, styles, metrics>>
    /\ UNCHANGED <<absent, broken, basins_file>>
    /\ UNCHANGED <<matchVars, loadVars, renderVars, cacheVars>>

ChangeRasterWidget ==
    \E w \in RasterWidgets :
        \E v \in widget_values(w) : RasterWidgetChange(w, v)

NextRasters ==
    \/ SelectLulcDate
    \/ SlopeLayer
    \/ LulcLayer
    \/ LulcMap
    \/ LulcTable
    \/ RpiLayer
    \/ RainfallLayer
    \/ QLayer
    \/ RpiMap
    \/ ChangeRasterWidget

SpecRasters == InitRasters /\ [][NextRasters]_vars

\* ------------------------------------------------ the point map alone
\* The tables the point map is drawn from: stations along one line, flood
\* rows on two dates either side of the end of February.
PlotStationRows == [lat : {0}, lon : 0 .. 1, hover_text : StationNames]
PlotStationTables ==
    {df \in SeqsUpTo(PlotStationRows, MaxPlotStations) : IsDeduplicated(df)}
PlotFloodRows ==
    [lat : {<<0>>}, lon : {<<0>>, <<1>>},
     date : {<<2021, 2, 27>>, <<2021, 3, 1>>}, Name_of_area : Areas]
PlotFloodTables == SeqsUpTo(PlotFloodRows, MaxPlotFloods)

\* the values the three widgets of the point map can have been set to
PlotWidgets(station_df, df) ==
    {[DefaultWidgets EXCEPT !.selected_station = st, !.flood_date = d,
                            !.show_all_floods = sa] :
        st \in {station_options(station_df)[i] :
                   i \in DOMAIN station_options(station_df)},
        d \in {<< >>} \cup (IF df = << >> THEN {} ELSE slider_dates(df)),
        sa \in BOOLEAN}

\* The script has reached line 154: the tables are loaded and matched.
InitPlot ==
    /\ station_map_df \in PlotStationTables
    /\ flood_df \in PlotFloodTables
    /\ flood_map_df = match_stations(flood_df, station_map_df)
    /\ widgets \in PlotWidgets(station_map_df, flood_map_df)
    /\ ppc = "point_map"
    /\ pc = "done"
    /\ row = 1
    /\ lat = 0 /\ lon = 0 /\ idx = 1
    /\ min_dist = inf /\ nearest_name = NoneName /\ nearest_coords = NoneCoords
    /\ geodesic_calls = 0
    /\ applied = << >>
    /\ flood_csv = << >> /\ rain_csv = << >> /\ rain_df = << >>
    /\ absent = {} /\ broken = {}
    /\ errors = {} /\ rendered = {} /\ exception = "none"
    /\ runs = 0 /\ basins_file = SampleBasins
    /\ load_cache = << >>
    /\ FreshScript
    /\ RenderNotCalled

NextPlot == PointMap

SpecPlot == InitPlot /\ [][NextPlot]_vars

\* ---------------------------------------------- the sub-basin map alone
\* The features of a sub-basin file: a style is a dict of style fields, and a
\* feature may carry none.
BasinStyles ==
    {[fillColor |-> c, fillOpacity |-> 50] : c \in {"red", "blue"}}
        \cup {[fillColor |-> "red"]}
BasinFeatures ==
    [properties : [mean_Q : {7},
                   style : {<< >>} \cup {<<st>> : st \in BasinStyles}]]
BasinFiles == SeqsUpTo(BasinFeatures, MaxFeatures) \ {<< >>}

\* the slider: 0.0 to 1.0 in steps of 0.05, in hundredths
OpacitySteps == {5 * k : k \in 0 .. 20}

\* The script has reached line 858 in a session whose opacity slider was set
\* in an earlier run.
InitBasin ==
    /\ basins_file \in BasinFiles
    /\ widgets \in {[DefaultWidgets EXCEPT !.basin_opacity = o] : o \in OpacitySteps}
    /\ absent \in {{}, {geojson_path}}
    /\ broken = {}
    /\ ppc = "basins_geojson"
    /\ flood_csv = << >> /\ rain_csv = << >>
    /\ flood_df = << >> /\ rain_df = << >>
    /\ errors = {} /\ rendered = {} /\ exception = "none"
    /\ runs = 0
    /\ load_cache = << >>
    /\ FreshScript
    /\ MatchIdle
    /\ RenderNotCalled

NextBasin == BasinMap

SpecBasin == InitBasin /\ [][NextBasin]_vars

\* ------------------------------------------------ the sidebar alone
\* The script has reached line 1103: the tables were loaded and matched, and
\* the point map was drawn with its markers.
InitSidebar ==
    /\ station_map_df \in PlotStationTables
    /\ flood_df \in PlotFloodTables \ {<< >>}
    /\ flood_map_df = match_stations(flood_df, station_map_df)
    /\ widgets \in PlotWidgets(station_map_df, flood_map_df)
    /\ flood_to_plot = flood_to_plot_of(widgets.selected_station,
                          widgets.show_all_floods,
                          slider_value(flood_map_df, widgets.flood_date),
                          flood_map_df)
    /\ ~(flood_to_plot = << >> /\ station_map_df = << >>)
    /\ station_markers = station_markers_of(station_map_df, widgets.selected_station)
    /\ flood_markers = flood_markers_of(flood_to_plot)
    /\ temp_files = << >> /\ selected_date = first_key_of_year(widgets.selected_year)
    /\ basins_geojson = apply_opacity(SampleBasins, widgets.basin_opacity)
    /\ styles = [i \in DOMAIN basins_geojson |-> style_function(basins_geojson[i])]
    /\ metrics = << >>
    /\ ppc = "sidebar"
    /\ pc = "done"
    /\ row = 1
    /\ lat = 0 /\ lon = 0 /\ idx = 1
    /\ min_dist = inf /\ nearest_name = NoneName /\ nearest_coords = NoneCoords
    /\ geodesic_calls = 0
    /\ applied = << >>
    /\ flood_csv = << >> /\ rain_csv = << >> /\ rain_df = << >>
    /\ absent = {} /\ broken = {}
    /\ errors = {} /\ exception = "none"
    /\ rendered = {"point_map", "rainfall_trends", "lulc_slope_river_map",
                   "rpi_rainfall_q_map", "half_basin_map"}
    /\ runs = 0 /\ basins_file = SampleBasins
    /\ load_cache = << >>
    /\ RenderNotCalled

NextSidebar == Sidebar

SpecSidebar == InitSidebar /\ [][NextSidebar]_vars

\* ================================================================ claims
\* Helpers of the claims about find_nearest_station.
StationResult(i) ==
    <<station_map_df[i].hover_text, <<station_map_df[i].lat, station_map_df[i].lon>>>>

\* distance from the query point of flood row r to station i
DistTo(r, i) ==
    geodesic(flood_map_df[r].lat, flood_map_df[r].lon,
             station_map_df[i].lat, station_map_df[i].lon)

AttainsMinimum(r, i) ==
    \A j \in DOMAIN station_map_df : DistTo(r, i) <= DistTo(r, j)

UniqueMinimum(r) ==
    \E i \in DOMAIN station_map_df :
        \A j \in DOMAIN station_map_df : j # i => DistTo(r, i) < DistTo(r, j)

TiedMinimum(r) ==
    \E i \in DOMAIN station_map_df :
        /\ AttainsMinimum(r, i)
        /\ \E k \in DOMAIN station_map_df : k # i /\ DistTo(r, k) = DistTo(r, i)

PermutationsOf(df) ==
    {[i \in DOMAIN df |-> df[f[i]]] : f \in Permutations(DOMAIN df)}

\* A call of find_nearest_station has just returned; it was made for flood
\* row (row - 1) and its value is applied[row - 1].
JustReturned == pc = "apply" /\ row > 1

\* C1: for every query point and every non-empty station set, the station
\* find_nearest_station returns is at a distance from the query point that is
\* less than or equal to the distance of every station of the set.
C1_NearestIsMinimum ==
    (JustReturned /\ station_map_df # << >>) =>
        \E i \in DOMAIN station_map_df :
            applied[row - 1] = StationResult(i) /\ AttainsMinimum(row - 1, i)

\* A call returned a station that is not the first row and is strictly nearer
\* than the first row.
C1_Witness ==
    /\ JustReturned
    /\ Len(station_map_df) >= 2
    /\ applied[row - 1] = StationResult(2)
    /\ DistTo(row - 1, 2) < DistTo(row - 1, 1)

\* C2: when two or more stations are at the same minimum distance from the
\* query point, find_nearest_station returns the one of them that comes first
\* in the order of the station table.
C2_TieKeepsFirst ==
    (JustReturned /\ TiedMinimum(row - 1)) =>
        \A i \in DOMAIN station_map_df :
            (/\ AttainsMinimum(row - 1, i)
             /\ \A j \in 1 .. (i - 1) : ~AttainsMinimum(row - 1, j))
            => applied[row - 1] = StationResult(i)

\* A call returned for a query point with the first two stations tied at the
\* minimum.
C2_Witness ==
    /\ JustReturned
    /\ TiedMinimum(row - 1)
    /\ applied[row - 1] = StationResult(1)
    /\ AttainsMinimum(row - 1, 2)

\* C3: when exactly one station attains the minimum distance, the value
\* find_nearest_station returned equals the value it returns for the same
\* query point on every permutation of the station table.
C3_PermutationInvariant ==
    (JustReturned /\ UniqueMinimum(row - 1)) =>
        \A p \in PermutationsOf(station_map_df) :
            find_nearest_station(flood_map_df[row - 1].lat,
                                 flood_map_df[row - 1].lon, p)
                = applied[row - 1]

\* A call returned for a table of two or more stations with one nearest
\* station, which is not the last row.
C3_Witness ==
    /\ JustReturned
    /\ Len(station_map_df) >= 2
    /\ UniqueMinimum(row - 1)
    /\ DistTo(row - 1, 1) < DistTo(row - 1, Len(station_map_df))

\* C4: with an empty station table find_nearest_station computes no distance
\* and returns (None, None), a value it returns for no non-empty table.
C4_EmptyGivesNone ==
    /\ station_map_df = << >> =>
          /\ geodesic_calls = 0
          /\ \A r \in DOMAIN applied : applied[r] = <<NoneName, NoneCoords>>
    /\ station_map_df # << >> =>
          \A r \in DOMAIN applied :
              applied[r][1] # NoneName /\ applied[r][2] # NoneCoords

\* A call on the empty station table has returned.
C4_Witness ==
    station_map_df = << >> /\ Len(applied) >= 1 /\ pc = "apply"

\* C5: with an empty station table, once the hover text is built every flood
\* row has a well-defined hover text (a label, not a missing value).
C5_HoverTextIsALabel ==
    (pc = "done" /\ station_map_df = << >>) =>
        \A r \in DOMAIN flood_map_df : flood_map_df[r].hover_text # NaN

InCall == pc = "scan" \/ (pc = "apply" /\ row <= Len(flood_map_df))

SameQuerySameResult ==
    \A r1, r2 \in DOMAIN applied :
        (/\ flood_map_df[r1].lat = flood_map_df[r2].lat
         /\ flood_map_df[r1].lon = flood_map_df[r2].lon)
        => applied[r1] = applied[r2]

C7_Pure ==
    /\ []SameQuerySameResult
    /\ [][InCall => /\ station_map_df' = station_map_df
                    /\ flood_map_df' = flood_map_df
                    /\ renderVars' = renderVars
                    /\ SubSeq(applied', 1, Len(applied)) = applied]_vars

\* Two calls with the same query point on a non-empty table have returned.
C7_Witness ==
    /\ Len(applied) = 2
    /\ station_map_df # << >>
    /\ flood_map_df[1].lat = flood_map_df[2].lat
    /\ flood_map_df[1].lon = flood_map_df[2].lon

\* ------------------------------------------------------ renderer claims
Returned == rpc = "returned"

\* C8: rendering a raster with 2 bands or with 5 or more bands signals an
\* error: the call never runs the 1-band, 3-band or 4-band branch, never
\* produces an image and never returns one.
C8_UnsupportedBandCount ==
    (src.count = 2 \/ src.count >= 5) =>
        /\ branch = "none"
        /\ img = << >>
        /\ ~Returned

\* C9: in the image of a 4-band raster every R, G, B and A value equals the
\* value of the same cell in bands 1 to 4, clamped to [0,255].
C9_FourBandClamped ==
    (Returned /\ src.count = 4) =>
        \A p \in Cells(src) :
            img[p] = <<clamp(src.bands[1][p]), clamp(src.bands[2][p]),
                       clamp(src.bands[3][p]), clamp(src.bands[4][p])>>

\* C10: in the image of a 3-band raster every pixel is the values of bands 1
\* to 3 of its cell, unchanged, with alpha 255.
C10_ThreeBandOpaque ==
    (Returned /\ src.count = 3) =>
        \A p \in Cells(src) :
            img[p] = <<src.bands[1][p], src.bands[2][p], src.bands[3][p], 255>>

\* --------------------------------------------- single-band render claims
\* A single-band raster was rendered.
SingleBandRendered == Returned /\ src.count = 1

IsNodataCell(p) == src.nodata # << >> /\ src.bands[1][p] = src.nodata[1]

\* the value of cell p once the no-data value is replaced by 0
Replaced(p) == IF IsNodataCell(p) THEN 0 ELSE src.bands[1][p]

\* minimum and maximum of a non-empty set of integers
MinOf(S) == CHOOSE m \in S : \A x \in S : m <= x
MaxOf(S) == CHOOSE m \in S : \A x \in S : m >= x

ObservedMin == MinOf({Replaced(p) : p \in Cells(src)})
ObservedMax == MaxOf({Replaced(p) : p \in Cells(src)})

DataCells == {p \in Cells(src) : ~IsNodataCell(p)}
DataMin == MinOf({src.bands[1][p] : p \in DataCells})
DataMax == MaxOf({src.bands[1][p] : p \in DataCells})

Transparent == <<0, 0, 0, 0>>

\* C11: in a single-band render every grey value lies in [0,255], a cell at
\* the observed minimum (after the no-data value is replaced by 0) has grey 0,
\* a cell at the observed maximum has grey 255, and every cell has the integer
\* part of (v - min) / (max - min) * 255.
C11_MinMaxRescale ==
    SingleBandRendered =>
        \A p \in Cells(src) :
            /\ arr[p] \in 0 .. 255
            /\ Replaced(p) = ObservedMin => arr[p] = 0
            /\ Replaced(p) = ObservedMax => arr[p] = 255
            /\ ObservedMax # ObservedMin =>
                  arr[p] = ((Replaced(p) - ObservedMin) * 255)
                               \div (ObservedMax - ObservedMin)

\* C12: in a single-band render the minimum and maximum of the rescale are
\* those of the cells that are not no-data; the raster [[0,10],[20,30]] with
\* no-data value 0 gives the greys [[0,0],[127,255]], the no-data cell
\* transparent.
C12_MinMaxOverData ==
    (SingleBandRendered /\ src.nodata # << >>) =>
        /\ (DataCells # {} /\ DataMax # DataMin) =>
              \A p \in DataCells :
                  arr[p] = ((src.bands[1][p] - DataMin) * 255)
                               \div (DataMax - DataMin)
        /\ (src.bands[1] = <<0, 10, 20, 30>> /\ src.nodata = <<0>>) =>
              /\ arr = <<0, 0, 127, 255>>
              /\ img[1] = Transparent

\* C13: in a single-band render a pixel has alpha 0 exactly when its rescaled
\* grey value is 0 and alpha 255 otherwise; a no-data cell whose grey value is
\* 0 is the transparent pixel.
C13_ZeroIsTransparent ==
    SingleBandRendered =>
        \A p \in Cells(src) :
            /\ img[p][4] = 0 <=> arr[p] = 0
            /\ arr[p] # 0 => img[p] = <<arr[p], arr[p], arr[p], 255>>
            /\ (IsNodataCell(p) /\ arr[p] = 0) => img[p] = Transparent

\* A single-band render with a transparent no-data cell and an opaque cell of
\* a grey value strictly between 0 and 255.
C13_Witness ==
    /\ SingleBandRendered
    /\ \E p, q \in Cells(src) :
          /\ IsNodataCell(p) /\ img[p] = Transparent
          /\ arr[q] \in 1 .. 254 /\ img[q][4] = 255

\* every cell of the band has the same value, which is not the no-data value
ConstantData ==
    /\ \A p, q \in Cells(src) : src.bands[1][p] = src.bands[1][q]
    /\ \A p \in Cells(src) : ~IsNodataCell(p)

\* C14: rendering a single-band raster whose cells all have the same value,
\* not the no-data value, divides nothing by zero and gives a fixed fallback
\* grid: every pixel transparent, or every pixel the same opaque mid-grey.
C14_ConstantFallback ==
    (SingleBandRendered /\ ConstantData) =>
        /\ ~invalid_divide
        /\ \/ \A p \in Cells(src) : img[p] = Transparent
           \/ \A p \in Cells(src) : img[p] = <<127, 127, 127, 255>>
           \/ \A p \in Cells(src) : img[p] = <<128, 128, 128, 255>>

\* C15: rendering a single-band raster whose cells all equal the no-data
\* value gives a grid of transparent pixels, and divides nothing by zero.
C15_AllNodataTransparent ==
    (SingleBandRendered /\ \A p \in Cells(src) : IsNodataCell(p)) =>
        /\ ~invalid_divide
        /\ \A p \in Cells(src) : img[p] = Transparent


\* ---------------------------------------------------------------- C16
IsCall == calls' = calls + 1
CalledKey == <<fn', tif_path'>>
FirstRenderIsStored ==
    (IsCall /\ CalledKey \notin DOMAIN cache)
        => /\ ~hit'
           /\ CalledKey \in DOMAIN cache'
           /\ cache'[CalledKey] = ret_png'
           /\ ret_png'[1] \notin DOMAIN png
           /\ png'[ret_png'[1]] = img'
           /\ ret_png'[2] = raster_at(tif_path').bounds
RepeatedRequestIsHit ==
    (IsCall /\ CalledKey \in DOMAIN cache)
        => /\ hit'
           /\ ret_png' = cache[CalledKey]
           /\ png'[ret_png'[1]] = png[cache[CalledKey][1]]
           /\ tmp_files' = tmp_files
           /\ UNCHANGED <<src, branch, arr, invalid_divide, img>>
NeverEvicted ==
    \A k \in DOMAIN cache :
        /\ k \in DOMAIN cache'
        /\ cache'[k] = cache[k]
        /\ png'[cache[k][1]] = png[cache[k][1]]
BodyRanOncePerPath ==
    /\ Cardinality(tmp_files) = Cardinality(DOMAIN cache)
    /\ \A k \in DOMAIN cache : cache[k][1] \in DOMAIN png

\* C16: a repeated request for a raster path that was already rendered is a
\* cache hit: it returns the image and the bounds stored by the first render
\* of that path and does not run the rendering body again (no new temporary
\* file, the body ran once per rendered path), and no cache entry is ever
\* evicted or changed.
C16_RepeatedRequestIsCacheHit ==
    /\ []BodyRanOncePerPath
    /\ [][FirstRenderIsStored /\ RepeatedRequestIsHit /\ NeverEvicted]_vars

\* a second request of the raster whose render is not determined by the file,
\* after another raster was rendered
C16_Witness ==
    /\ hit
    /\ tif_path = "data/RPI_2025.tif"
    /\ ret_png = cache[<<fn, tif_path>>]
    /\ Cardinality(tmp_files) >= 2


\* ---------------------------------------------------------------- C17
Loaded == ppc \notin {"load_data", "stopped"}

ParsedFlood(r) ==
    [lat |-> to_numeric(r.lat), lon |-> to_numeric(r.lon),
     date |-> to_datetime(r.date), Name_of_area |-> r.Name_of_area]
ParsedRain(r) ==
    [Lat_DD |-> to_numeric(r.Lat_DD), Lon_DD |-> to_numeric(r.Lon_DD),
     location_name |-> r.location_name, date |-> to_datetime(r.date)]
FloodComplete(r) == ~isna(r.lat) /\ ~isna(r.lon) /\ ~isna(r.date)
RainComplete(r) == ~isna(r.Lat_DD) /\ ~isna(r.Lon_DD) /\ ~isna(r.date)

\* the rows of the two files whose coordinates and date all parse
GoodFlood == {i \in DOMAIN flood_csv : FloodComplete(ParsedFlood(flood_csv[i]))}
GoodRain == {i \in DOMAIN rain_csv : RainComplete(ParsedRain(rain_csv[i]))}
RankIn(G, i) == Cardinality({j \in G : j <= i})

\* C17: after load_data every retained flood record and every retained
\* rainfall record has a non-null latitude, longitude and date; the retained
\* records are exactly the rows of the file whose cells all parse, in the
\* order of the file and with the values their own cells denote (a failing
\* row is dropped, not repaired); and a failing row ends neither the load nor
\* the run.
C17_RetainedRowsAreComplete ==
    Loaded =>
        /\ \A i \in DOMAIN flood_df : FloodComplete(flood_df[i])
        /\ \A i \in DOMAIN rain_df : RainComplete(rain_df[i])
        /\ Len(flood_df) = Cardinality(GoodFlood)
        /\ \A i \in GoodFlood :
              flood_df[RankIn(GoodFlood, i)] = ParsedFlood(flood_csv[i])
        /\ Len(rain_df) = Cardinality(GoodRain)
        /\ \A i \in GoodRain :
              rain_df[RankIn(GoodRain, i)] = ParsedRain(rain_csv[i])
        /\ exception = "none" /\ errors = {}

\* both files hold a row that fails and a row that parses; the failing flood
\* row comes first, the failing rainfall row (its date) comes last
C17_Witness ==
    /\ Loaded
    /\ Len(flood_csv) = 2 /\ GoodFlood = {2} /\ Len(flood_df) = 1
    /\ Len(rain_csv) = 2 /\ GoodRain = {1} /\ Len(rain_df) = 1
    /\ ~isna(to_numeric(rain_csv[2].Lat_DD))
    /\ ~isna(to_numeric(rain_csv[2].Lon_DD))

\* ---------------------------------------------------------------- C18
StationsBuilt == ppc = "flood_map_df"
RainTriples ==
    {<<rain_df[i].Lat_DD[1], rain_df[i].Lon_DD[1], rain_df[i].location_name>> :
        i \in DOMAIN rain_df}
StationTriples ==
    {<<station_map_df[i].lat, station_map_df[i].lon, station_map_df[i].hover_text>> :
        i \in DOMAIN station_map_df}

\* C18: the station table holds no two entries with the same (latitude,
\* longitude, station name) triple, and holds one entry for every distinct
\* triple of the retained rainfall rows.
C18_StationsAreDistinctTriples ==
    StationsBuilt =>
        /\ \A i, j \in DOMAIN station_map_df :
              i # j => <<station_map_df[i].lat, station_map_df[i].lon,
                         station_map_df[i].hover_text>>
                       # <<station_map_df[j].lat, station_map_df[j].lon,
                           station_map_df[j].hover_text>>
        /\ StationTriples = RainTriples
        /\ Len(station_map_df) = Cardinality(RainTriples)

\* two retained rainfall rows of one station, written differently in the
\* file, give one station
C18_Witness ==
    /\ StationsBuilt
    /\ Len(rain_df) = 2
    /\ rain_csv[1].Lat_DD # rain_csv[2].Lat_DD
    /\ Len(station_map_df) = 1


\* ---------------------------------------------------------------- C19
\* C19: whenever a required input file is absent, the run shows an error
\* message naming it and halts, and no run ends with an exception that no
\* handler caught: a run that has ended, and needed an absent file, has
\* reported one with st.error and was stopped by st.stop().
C19_MissingFileIsReported ==
    /\ exception \notin absent
    /\ (ppc \in {"stopped", "exception"} /\ absent # {})
          => (ppc = "stopped" /\ errors # {} /\ errors \subseteq absent)

\* ---------------------------------------------------------------- C20
FailedLayer == ppc = "exception" /\ exception \in RasterPaths
LaterSections(path) ==
    IF path \in {slope_tif} \cup LulcPaths
    THEN {"lulc_slope_river_map", "rpi_rainfall_q_map", "half_basin_map",
          "dashboard_metrics"}
    ELSE {"rpi_rainfall_q_map", "half_basin_map", "dashboard_metrics"}

\* C20: a rendering failure of one raster layer affects that layer only: the
\* run does not end at the failing layer, the map of the layer and every
\* later section of the page are rendered.
C20_LayerFailureIsLocal ==
    /\ ~FailedLayer
    /\ (ppc = "done" /\ broken # {}) => LaterSections(slope_tif) \subseteq rendered


\* ---------------------------------------------------------------- C23
Plotted == ppc = "load_geojson"
ChosenDate ==
    IF widgets.flood_date = << >> THEN min_date(flood_map_df) ELSE widgets.flood_date
RowsOfChosenDate == {i \in DOMAIN flood_map_df : flood_map_df[i].date = ChosenDate}
ShowsAll == widgets.selected_station = "All Stations" /\ widgets.show_all_floods

\* C23: the flood incidents plotted on the first map are the whole incident
\* set when the station selector is "All Stations" and "Show all flood data"
\* is checked; in every other case, a specific station included, they are
\* exactly the incidents whose date is the slider date, in the order of the
\* table and whatever their nearest station; and one flood marker is placed
\* per plotted incident.
C23_PlottedIncidents ==
    Plotted =>
        /\ ShowsAll => flood_to_plot = flood_map_df
        /\ ~ShowsAll =>
              /\ Len(flood_to_plot) = Cardinality(RowsOfChosenDate)
              /\ \A i \in RowsOfChosenDate :
                    flood_to_plot[RankIn(RowsOfChosenDate, i)] = flood_map_df[i]
        /\ Len(flood_markers) = Len(flood_to_plot)
        /\ \A i \in DOMAIN flood_to_plot :
              /\ flood_markers[i].location = <<flood_to_plot[i].lat, flood_to_plot[i].lon>>
              /\ flood_markers[i].popup = flood_to_plot[i].hover_text

\* a specific station is selected, an incident of another date is left out,
\* and an incident nearest to another station is plotted
C23_Witness ==
    /\ Plotted
    /\ widgets.selected_station = "B"
    /\ Len(flood_to_plot) < Len(flood_map_df)
    /\ \E i \in DOMAIN flood_to_plot : flood_to_plot[i].nearest_station = "A"


\* ---------------------------------------------------------------- C25
OpacityApplied == ppc \in {"sidebar", "exception"}
OtherFields(feature) == DOMAIN feature.properties.style[1] \ {"fillOpacity"}

\* C25: after the opacity step every sub-basin feature that has a 'style'
\* has fillOpacity equal to the slider value, with its other style fields and
\* its other properties as they were in the file, and a feature without a
\* 'style' is as it was in the file; the style function has read 'style' from
\* every feature only if every feature carries one.
C25_OpacityOnlyOnStyledFeatures ==
    OpacityApplied =>
        /\ Len(basins_geojson) = Len(basins_file)
        /\ \A i \in DOMAIN basins_file :
              IF basins_file[i].properties.style # << >>
              THEN /\ basins_geojson[i].properties.style # << >>
                   /\ basins_geojson[i].properties.style[1].fillOpacity
                          = widgets.basin_opacity
                   /\ OtherFields(basins_geojson[i]) = OtherFields(basins_file[i])
                   /\ \A k \in OtherFields(basins_file[i]) :
                          basins_geojson[i].properties.style[1][k]
                              = basins_file[i].properties.style[1][k]
                   /\ basins_geojson[i].properties.mean_Q
                          = basins_file[i].properties.mean_Q
              ELSE basins_geojson[i] = basins_file[i]
        /\ ppc = "sidebar" =>
              /\ \A i \in DOMAIN basins_file : basins_file[i].properties.style # << >>
              /\ Len(styles) = Len(basins_file)
              /\ \A i \in DOMAIN styles : styles[i] = basins_geojson[i].properties.style[1]

\* a file with a styled feature whose opacity changes and a feature without
\* a style, on which the style function fails
C25_Witness ==
    /\ ppc = "exception"
    /\ exception = "KeyError: 'style'"
    /\ \E i \in DOMAIN basins_file :
          /\ basins_file[i].properties.style # << >>
          /\ "fillOpacity" \in DOMAIN basins_file[i].properties.style[1]
          /\ basins_file[i].properties.style[1].fillOpacity
                 # basins_geojson[i].properties.style[1].fillOpacity
    /\ \E i \in DOMAIN basins_file : basins_file[i].properties.style = << >>

\* ---------------------------------------------------------------- C26
MetricsShown == ppc = "done" /\ Len(metrics) = 2

\* C26: the sidebar metric "Flood Incidents" is the number of retained flood
\* records, and the sidebar metric "Stations" is the number of deduplicated
\* stations minus one, which is one less than the number of station markers
\* placed on the point map.
C26_SidebarMetrics ==
    MetricsShown =>
        /\ metrics[1].label = "Flood Incidents"
        /\ metrics[1].value = Len(flood_df)
        /\ metrics[1].value = Len(flood_map_df)
        /\ metrics[2].label = "Stations"
        /\ metrics[2].value = Len(station_map_df) - 1
        /\ metrics[2].value = Len(station_markers) - 1

\* two stations have their markers on the map and the metric shows one
C26_Witness ==
    /\ MetricsShown
    /\ Len(station_markers) = 2
    /\ metrics[2].value = 1
    /\ metrics[1].value = 2


\* ---------------------------------------------------------------- C21
\* C21: a widget change is handled, and the script started again from the
\* top, only when the run before it has reached the end of the script.
C21_RunCompletesBeforeNextChange ==
    [][runs' # runs => ppc = "done"]_vars

\* ---------------------------------------------------------------- C22
BodyRan == calls' = calls + 1 /\ ~hit'
CachedPathsExist ==
    \A k \in DOMAIN cache : cache[k][1] \in tmp_files /\ cache[k][1] \in DOMAIN png
ListedPathsExist == \A i \in DOMAIN temp_files : temp_files[i] \in tmp_files
BodyWritesOneNewFile ==
    BodyRan =>
        /\ ret_png'[1] \notin tmp_files
        /\ tmp_files' = tmp_files \cup {ret_png'[1]}
        /\ DOMAIN png' = DOMAIN png \cup {ret_png'[1]}
        /\ Cardinality(DOMAIN cache') = Cardinality(DOMAIN cache) + 1
NoFileDeleted ==
    /\ tmp_files \subseteq tmp_files'
    /\ \A n \in DOMAIN png : n \in DOMAIN png' /\ png'[n] = png[n]
OnlyBodyWrites == ~BodyRan => tmp_files' = tmp_files

FirstKeyOfYear(y) ==
    {lulc_keys[i] : i \in {j \in DOMAIN lulc_keys :
        /\ year_of[lulc_keys[j]] = y
        /\ \A h \in 1 .. (j - 1) : year_of[lulc_keys[h]] # y}}
DateSelected == ppc \notin {"select_slider", "exception"}

\* C24: for every year the year selector offers, the lookup of the LULC date
\* finds a key, the first key of lulc_files with that year, and that key has
\* a raster path in lulc_files and an entry in lulc_phase; so whatever year
\* is selected, the run gets the date of that year and neither the date
\* lookup, the raster selection nor the description table raises.
C24_EveryYearHasDateRasterAndPhase ==
    /\ \A i \in DOMAIN lulc_keys : lulc_keys[i] \in DOMAIN lulc_files
    /\ \A y \in available_years :
          /\ FirstKeyOfYear(y) = {first_key_of_year(y)}
          /\ first_key_of_year(y) \in DOMAIN lulc_files
          /\ first_key_of_year(y) \in DOMAIN lulc_phase
    /\ widgets.selected_year \in available_years
    /\ exception \notin {"StopIteration", "KeyError"}
    /\ DateSelected =>
          /\ selected_date \in FirstKeyOfYear(widgets.selected_year)
          /\ selected_date \in DOMAIN lulc_files
          /\ selected_date \in DOMAIN lulc_phase

\* the year was changed to 2020, and the LULC layer of 2020-09-15 is on the map
C24_Witness ==
    /\ runs = 1
    /\ widgets.selected_year = 2020
    /\ selected_date = "2020-09-15"
    /\ "lulc" \in rendered
    /\ ppc = "table_choice"

====
